---- MODULE Spec2Model ----
(***************************************************************************)
(* Frame extraction and enhancement pipeline of get-image-from-videos.     *)
(*                                                                         *)
(* The model follows the App component of the most recent variant of the   *)
(* orchestration file (src/unnamed/part_001) and the remote-call wrappers  *)
(* of src/services/geminiService.ts.  An async handler is split at its     *)
(* awaits: one action per synchronous stretch of code.                     *)
(*                                                                         *)
(* Time is counted in ticks of 1/TicksPerSec second, the coarsest unit in  *)
(* which every sample interval 1/fps is a whole number of ticks.           *)
(***************************************************************************)
EXTENDS Integers, Sequences, FiniteSets, TLC

\* ---------------------------------------------------------------- bounds
\* Duration of the uploaded video, in ticks.
MaxDuration == 3
\* Duration in ticks of the video of the selection specification: at the
\* default 4 frames per second, one more sample than MAX_SELECTED_FRAMES.
SelectionDuration == 9
\* Duration in ticks of the video of the specification with fairness.
LiveDuration == 2
\* Duration in ticks of the longer video of the sampling specification.
LongDuration == 8
\* How many crops are saved on one set of extracted frames.
MaxCrops == 1

\* ------------------------------------------------------- program constants
MAX_SELECTED_FRAMES == 8

\* The sampling rates the sidebar offers (the model leaves out 8 and 24).
FpsChoices == {1, 2, 4}

Genders == {"All", "Male", "Female"}

TicksPerSec ==
    CHOOSE n \in 1..24 :
        /\ \A f \in FpsChoices : n % f = 0
        /\ \A m \in 1..(n - 1) : \E f \in FpsChoices : m % f # 0

\* ------------------------------------------------------------ text values
\* A text is a sequence of one-character strings.
LowerChar(c) ==
    CASE c = "A" -> "a" [] c = "E" -> "e" [] c = "F" -> "f" [] c = "L" -> "l"
      [] c = "M" -> "m" [] c = "N" -> "n" [] c = "O" -> "o" [] c = "S" -> "s"
      [] c = "Y" -> "y" [] OTHER -> c

ToLowerCase(s) == [k \in 1..Len(s) |-> LowerChar(s[k])]

IsSpace(c) == c \in {" ", "\n"}

RECURSIVE TrimStart(_)
TrimStart(s) ==
    IF s # <<>> /\ IsSpace(Head(s)) THEN TrimStart(Tail(s)) ELSE s

RECURSIVE TrimEnd(_)
TrimEnd(s) ==
    IF s # <<>> /\ IsSpace(s[Len(s)]) THEN TrimEnd(SubSeq(s, 1, Len(s) - 1)) ELSE s

Trim(s) == TrimEnd(TrimStart(s))

GenderText(g) ==
    CASE g = "All" -> <<"A", "l", "l">>
      [] g = "Male" -> <<"M", "a", "l", "e">>
      [] g = "Female" -> <<"F", "e", "m", "a", "l", "e">>

\* What the classification service may send back as response.text.
ReplyTexts ==
    { <<"Y", "e", "s">>, <<"y", "e", "s", "\n">>, <<"N", "o">>,
      <<"M", "a", "l", "e">>, <<" ", "M", "A", "L", "E">>,
      <<"F", "e", "m", "a", "l", "e">>, <<"N", "o", "n", "e">> }

\* A resolved remote call: ok = FALSE is a transport or parsing failure.
NoReply == [ok |-> FALSE, text |-> <<>>, image |-> FALSE]
ClassifierReplies ==
    {[ok |-> TRUE, text |-> t, image |-> FALSE] : t \in ReplyTexts}
        \cup {[ok |-> FALSE, text |-> <<>>, image |-> FALSE]}
EnhancerReplies ==
    {[ok |-> TRUE, text |-> <<>>, image |-> b] : b \in BOOLEAN}
        \cup {[ok |-> FALSE, text |-> <<>>, image |-> FALSE]}

\* ------------------------------------------------------------ image values
NoImage == [kind |-> "none", t |-> 0, rev |-> 0]
\* canvas.toDataURL of the picture decoded at time t
Capture(t) == [kind |-> "jpeg", t |-> t, rev |-> 0]
\* the data URI the enhancer's image is exposed as
EnhancedUrl(d) == [kind |-> "enhanced", t |-> d.t, rev |-> d.rev]
\* canvas.toDataURL of a crop of image d
Cropped(d) == [d EXCEPT !.rev = d.rev + 1]

\* the sidebar preview: only whether thumbnailDataUrl is set is kept
Preview == [kind |-> "preview", t |-> 0, rev |-> 0]

Msg(text, a, b) == [text |-> text, a |-> a, b |-> b]

\* currentVideo = null
NoVideo ==
    [status |-> "none", progressMessage |-> Msg("", 0, 0), progressCurrent |-> 0,
     progressTotal |-> 0, resultCount |-> 0, thumbnailDataUrl |-> NoImage,
     startTime |-> 0, endTime |-> 0, error |-> ""]

VARIABLES
    \* React state of App
    currentVideo, videoSrc, shouldColorize, framesPerSecond, gender,
    processingState, extractedFrames, selectedFrameIds, enhancedImages,
    framesBeingEnhanced, configuringVideo,
    \* isCancelledRef.current
    isCancelled,
    \* window.alert currently shown ("" when none)
    alertText,
    \* duration in ticks of the video file the user has (tempVideo.duration)
    fileDuration,
    \* the running async handler: its position and its locals
    pc, i, startTime, frameInterval, totalFramesToProcess, foundFramesCount,
    j, framesToEnhance, referenceFrame, newImages,
    \* the resolved value of the remote call the handler awaits
    reply,
    \* history: handler invocations in flight; how the last run returned;
    \* loop iterations begun in the run; that count when cancel was first
    \* requested in the run (-1: not requested); the seek targets of the run;
    \* whether every sample of the run so far was classified as requested;
    \* how many classifier replies of the run were as requested;
    \* the enhancer requests of the run; for each resolved one, whether it
    \* gave an image
    running, ended, iterBegun, begunAtCancel, seekLog, everyMatched, matchCount,
    enhancerCalls, enhancerResults,
    \* history: handleEnhanceFrames has been invoked with nothing selected
    guardReturns,
    \* history: the frames the extraction loop of the run accepted, as
    \* captured, in the order it accepted them
    acceptedLog

appVars ==
    <<currentVideo, videoSrc, shouldColorize, framesPerSecond, gender,
      processingState, extractedFrames, selectedFrameIds, enhancedImages,
      framesBeingEnhanced, configuringVideo, isCancelled, alertText>>
extractLocals == <<i, startTime, frameInterval, totalFramesToProcess, foundFramesCount>>
enhanceLocals == <<j, framesToEnhance, referenceFrame, newImages>>
history ==
    <<running, ended, iterBegun, begunAtCancel, seekLog, everyMatched, matchCount,
      enhancerCalls, enhancerResults>>
vars == <<appVars, fileDuration, pc, extractLocals, enhanceLocals, reply, history,
          guardReturns, acceptedLog>>

isProcessing == processingState = "processing"

\* ------------------------------------------------------------ rendering
\* Nothing on the page reacts while a modal dialog or an alert is up, and a
\* resolved promise's continuation runs before any later event.
PageResponsive ==
    /\ alertText = ""
    /\ ~configuringVideo
    /\ pc \notin {"ext_reply", "enh_reply"}

\* renderProcessingView is rendered
ProcessingViewShown == currentVideo # NoVideo

\* the sidebar shows "Step 1: Extract Frames"
StepOneShown == ProcessingViewShown /\ Len(extractedFrames) = 0

\* Bound on the user: the settings of Step 1 are edited only on an upload on
\* which no run has been started yet (the progress fields a run leaves behind
\* are then never combined with new settings).
BeforeFirstRun == currentVideo.progressMessage = Msg("Waiting...", 0, 0)

\* variant: the button is not hidden while a run is in progress
ExtractButtonWhileProcessing ==
    /\ ProcessingViewShown
    /\ Len(extractedFrames) = 0

\* the "Extract Frames" button is rendered
ExtractButtonShown ==
    /\ ProcessingViewShown
    /\ ~isProcessing
    /\ Len(extractedFrames) = 0

\* variant: the button is not replaced by Cancel while a run is in progress
EnhanceButtonWhileProcessing ==
    /\ ProcessingViewShown
    /\ Len(extractedFrames) # 0
    /\ Cardinality(selectedFrameIds) # 0

\* the "Enhance n Frames" button is rendered and not disabled
EnhanceButtonEnabled ==
    /\ ProcessingViewShown
    /\ ~isProcessing
    /\ Len(extractedFrames) # 0
    /\ Cardinality(selectedFrameIds) # 0

\* the Cancel button is rendered
CancelButtonShown == ProcessingViewShown /\ isProcessing

\* variant: the gallery stays in the main area while frames are being enhanced
GalleryShownWhileEnhancing ==
    /\ ProcessingViewShown
    /\ processingState # "done"
    /\ Len(extractedFrames) > 0

\* the main area shows ExtractedFrameGallery
GalleryShown ==
    /\ ProcessingViewShown
    /\ ~(isProcessing /\ Len(framesBeingEnhanced) > 0)
    /\ processingState # "done"
    /\ Len(extractedFrames) > 0

\* the main area shows the preview <video> (videoPreviewRef.current is set)
VideoElementMounted ==
    /\ ProcessingViewShown
    /\ ~(isProcessing /\ Len(framesBeingEnhanced) > 0)
    /\ processingState # "done"
    /\ Len(extractedFrames) = 0
    /\ ~(isProcessing /\ currentVideo.thumbnailDataUrl # NoImage)


\* ------------------------------------------------------- pure code pieces
\* setCurrentVideo(prev => (prev ? { ...prev, ...updates } : null))
UpdateCurrentVideo(prev, updated) == IF prev = NoVideo THEN NoVideo ELSE updated

\* variant: only a negative duration is refused
InvalidSegmentNegative(segmentDuration) == segmentDuration < 0

\* if (segmentDuration <= 0)
InvalidSegment(segmentDuration) == segmentDuration <= 0

\* const frameInterval = 1 / framesPerSecond (in ticks)
FrameInterval(fps) == TicksPerSec \div fps

\* variant: a positive segment always gets at least one sample
TotalFramesAtLeastOne(segmentDuration, interval) ==
    IF segmentDuration \div interval = 0 THEN 1 ELSE segmentDuration \div interval

\* variant: Math.ceil in place of Math.floor
TotalFramesCeiling(segmentDuration, interval) ==
    (segmentDuration + interval - 1) \div interval

\* Math.floor(segmentDuration / frameInterval)
TotalFrames(segmentDuration, interval) == segmentDuration \div interval

\* variant: the sample is taken at the end of its interval
SampleTimeIntervalEnd(start, k, interval) == start + ((k + 1) * interval)

\* const currentTime = startTime + (i * frameInterval)
SampleTime(start, k, interval) == start + (k * interval)

\* variant: the loop never looks at the flag
CancelCheckNever(flag) == FALSE

\* if (isCancelledRef.current) break;
CancelCheck(flag) == flag

\* variant: the loop runs one index too far
LoopBoundInclusive(k, total) == k <= total

\* the for-loop headers: i < totalFramesToProcess, j < framesToEnhance.length
LoopBound(k, total) == k < total

\* variant: no branch for 'All', the reply is compared with the filter's name
FilterFrameByGenderLabelOnly(r, g) ==
    r.ok /\ ToLowerCase(Trim(r.text)) = ToLowerCase(GenderText(g))

\* variant: the label is compared without folding its case
FilterFrameByGenderExact(r, g) ==
    IF ~r.ok
    THEN FALSE
    ELSE IF g = "All"
         THEN ToLowerCase(Trim(r.text)) = <<"y", "e", "s">>
         ELSE Trim(r.text) = GenderText(g)

\* variant: a failed call counts as a match
FilterFrameByGenderFailOpen(r, g) ==
    IF ~r.ok
    THEN TRUE
    ELSE IF g = "All"
         THEN ToLowerCase(Trim(r.text)) = <<"y", "e", "s">>
         ELSE ToLowerCase(Trim(r.text)) = ToLowerCase(GenderText(g))

\* filterFrameByGender, given the resolved generateContent call
FilterFrameByGender(r, g) ==
    IF ~r.ok
    THEN FALSE
    ELSE IF g = "All"
         THEN ToLowerCase(Trim(r.text)) = <<"y", "e", "s">>
         ELSE ToLowerCase(Trim(r.text)) = ToLowerCase(GenderText(g))

\* variant: a reply without an image is exposed as an image all the same
EnhanceImageAlways(r, dataUrl) ==
    IF r.ok THEN EnhancedUrl(dataUrl) ELSE NoImage

\* enhanceImage, given the resolved generateContent call: a data URI or null
EnhanceImage(r, dataUrl) ==
    IF r.ok /\ r.image THEN EnhancedUrl(dataUrl) ELSE NoImage

\* variant: a result that arrives after a cancel request is dropped
AcceptUnlessCancelled(r, g, flag) == ~flag /\ FilterFrameByGender(r, g)

\* if (await filterFrameByGender(dataUrl, gender)), reached with
\* isCancelledRef.current = flag
AcceptCondition(r, g, flag) == FilterFrameByGender(r, g)

\* const enhancedUrl = await enhanceImage(...); if (enhancedUrl), reached
\* with isCancelledRef.current = flag
ProducedUrl(r, dataUrl, flag) == EnhanceImage(r, dataUrl)

\* The service's contract: the reply is the word the prompt asked for
\* ('Yes' for a face, or the requested label), whatever its case.
RepliesAsRequested(r, g) ==
    /\ r.ok
    /\ ToLowerCase(Trim(r.text)) =
            IF g = "All" THEN <<"y", "e", "s">> ELSE ToLowerCase(GenderText(g))

Timestamps(frames) == [k \in 1..Len(frames) |-> frames[k].timestamp]
TimestampSet(frames) == {frames[k].timestamp : k \in 1..Len(frames)}

\* variant: every extracted frame is taken, selected or not
SelectedFramesAll(frames, ids) == frames

\* extractedFrames.filter(f => selectedFrameIds.has(f.timestamp))
SelectedFrames(frames, ids) ==
    SelectSeq(frames, LAMBDA f : f.timestamp \in ids)

\* the value of an index expression outside the array (undefined)
NoFrame == [timestamp |-> 0, dataUrl |-> NoImage]

\* variant: the first selected frame is the reference
ReferenceFrameFirst(frames) == frames[1]

\* framesToEnhance[Math.floor(framesToEnhance.length / 2)]
ReferenceFrame(frames) ==
    IF (Len(frames) \div 2) + 1 \in DOMAIN frames
    THEN frames[(Len(frames) \div 2) + 1]
    ELSE NoFrame

\* variant: every frame is selected
FirstTimestampsUncapped(frames) ==
    {frames[k].timestamp : k \in 1..Len(frames)}

\* extractedFrames.slice(0, MAX_SELECTED_FRAMES).map(f => f.timestamp)
FirstTimestamps(frames) ==
    {frames[k].timestamp : k \in 1..(IF Len(frames) < MAX_SELECTED_FRAMES
                                      THEN Len(frames) ELSE MAX_SELECTED_FRAMES)}

\* variant: a frame is added whatever the size of the selection
FrameSelectionUncapped(prev, timestamp) ==
    IF timestamp \in prev
    THEN [ids |-> prev \ {timestamp}, notice |-> FALSE]
    ELSE [ids |-> prev \cup {timestamp}, notice |-> FALSE]

\* variant: a full selection refuses the frame without telling the user
FrameSelectionSilent(prev, timestamp) ==
    IF timestamp \in prev
    THEN [ids |-> prev \ {timestamp}, notice |-> FALSE]
    ELSE IF Cardinality(prev) < MAX_SELECTED_FRAMES
    THEN [ids |-> prev \cup {timestamp}, notice |-> FALSE]
    ELSE [ids |-> prev, notice |-> FALSE]

\* variant: a full selection gives up a selected frame for the new one
FrameSelectionEvicting(prev, timestamp) ==
    IF timestamp \in prev
    THEN [ids |-> prev \ {timestamp}, notice |-> FALSE]
    ELSE IF Cardinality(prev) < MAX_SELECTED_FRAMES
    THEN [ids |-> prev \cup {timestamp}, notice |-> FALSE]
    ELSE [ids |-> (prev \ {CHOOSE t \in prev : TRUE}) \cup {timestamp},
          notice |-> TRUE]

\* the updater of handleFrameSelection: the new set, and whether alert() is
\* called
FrameSelectionUpdate(prev, timestamp) ==
    IF timestamp \in prev
    THEN [ids |-> prev \ {timestamp}, notice |-> FALSE]
    ELSE IF Cardinality(prev) < MAX_SELECTED_FRAMES
    THEN [ids |-> prev \cup {timestamp}, notice |-> FALSE]
    ELSE [ids |-> prev, notice |-> TRUE]

\* variant: the map replaces the image of every frame
WithCropEveryFrame(frames, t) ==
    [k \in 1..Len(frames) |-> [frames[k] EXCEPT !.dataUrl = Cropped(frames[k].dataUrl)]]

\* variant: the cropped frame is taken out and put back at the end
WithCropMovedLast(frames, t) ==
    SelectSeq(frames, LAMBDA f : f.timestamp # t)
        \o [k \in 1..Cardinality({n \in 1..Len(frames) : frames[n].timestamp = t}) |->
                LET f == CHOOSE g \in {frames[n] : n \in 1..Len(frames)} : g.timestamp = t
                IN  [f EXCEPT !.dataUrl = Cropped(f.dataUrl)]]

\* prev.map(f => f.timestamp === timestamp ? { ...f, dataUrl: newDataUrl } : f)
WithCrop(frames, t) ==
    [k \in 1..Len(frames) |->
        IF frames[k].timestamp = t
        THEN [frames[k] EXCEPT !.dataUrl = Cropped(frames[k].dataUrl)]
        ELSE frames[k]]

RECURSIVE CropsSaved(_)
CropsSaved(frames) ==
    IF frames = <<>> THEN 0 ELSE Head(frames).dataUrl.rev + CropsSaved(Tail(frames))

\* ------------------------------------------------------------------ Init
InitApp ==
    /\ currentVideo = NoVideo
    /\ videoSrc = FALSE
    /\ shouldColorize = TRUE
    /\ framesPerSecond = 4
    /\ gender = "All"
    /\ processingState = "idle"
    /\ extractedFrames = <<>>
    /\ selectedFrameIds = {}
    /\ enhancedImages = <<>>
    /\ framesBeingEnhanced = <<>>
    /\ configuringVideo = FALSE
    /\ isCancelled = FALSE
    /\ alertText = ""
    /\ pc = "idle"
    /\ i = 0 /\ startTime = 0 /\ frameInterval = 0
    /\ totalFramesToProcess = 0 /\ foundFramesCount = 0
    /\ j = 0 /\ framesToEnhance = <<>> /\ referenceFrame = NoFrame /\ newImages = <<>>
    /\ reply = NoReply
    /\ running = 0 /\ ended = "none" /\ iterBegun = 0 /\ begunAtCancel = -1
    /\ seekLog = <<>> /\ everyMatched = TRUE /\ matchCount = 0 /\ enhancerCalls = <<>>
    /\ enhancerResults = <<>>
    /\ guardReturns = FALSE
    /\ acceptedLog = <<>>

Init == fileDuration = MaxDuration /\ InitApp

InitLong == fileDuration = LongDuration /\ InitApp

\* The locals of a handler that has returned are dead: forget them.
ForgetRun ==
    /\ pc' = "idle"
    /\ i' = 0 /\ startTime' = 0 /\ frameInterval' = 0
    /\ totalFramesToProcess' = 0 /\ foundFramesCount' = 0
    /\ j' = 0 /\ framesToEnhance' = <<>> /\ referenceFrame' = NoFrame /\ newImages' = <<>>
    /\ reply' = NoReply
    /\ running' = running /\ ended' = "none" /\ iterBegun' = 0 /\ begunAtCancel' = -1
    /\ seekLog' = <<>> /\ everyMatched' = TRUE /\ matchCount' = 0 /\ enhancerCalls' = <<>>
    /\ enhancerResults' = <<>> /\ acceptedLog' = <<>>

\* variant: the reset leaves the selection as it is
ResetProcessingResultsKeepsSelection ==
    /\ extractedFrames' = <<>>
    /\ selectedFrameIds' = selectedFrameIds
    /\ enhancedImages' = <<>>
    /\ framesBeingEnhanced' = <<>>

\* resetProcessingResults
ResetProcessingResults ==
    /\ extractedFrames' = <<>>
    /\ selectedFrameIds' = {}
    /\ enhancedImages' = <<>>
    /\ framesBeingEnhanced' = <<>>

\* ------------------------------------------------------- video and setup
\* handleFileSelect, with the outcome of loading the file's metadata
HandleFileSelect ==
    /\ UNCHANGED <<fileDuration, guardReturns>>
    /\ alertText = "" /\ ~configuringVideo
    /\ ~ProcessingViewShown
    /\ processingState # "processing"
    /\ \E loaded \in BOOLEAN :
        IF loaded
        THEN /\ currentVideo' =
                    [NoVideo EXCEPT !.status = "queued",
                                    !.progressMessage = Msg("Waiting...", 0, 0),
                                    !.progressTotal = 1,
                                    !.endTime = fileDuration]
             /\ configuringVideo' = TRUE
             /\ videoSrc' = TRUE
             /\ ResetProcessingResults
             /\ processingState' = "idle"
             /\ UNCHANGED alertText
        ELSE /\ alertText' = "Could not read video metadata."
             /\ videoSrc' = FALSE
             /\ UNCHANGED <<currentVideo, configuringVideo, processingState,
                            extractedFrames, selectedFrameIds, enhancedImages,
                            framesBeingEnhanced>>
    /\ UNCHANGED <<shouldColorize, framesPerSecond, gender, isCancelled>>
    /\ ForgetRun

\* the user closes an alert
DismissAlert ==
    /\ UNCHANGED <<fileDuration, guardReturns, acceptedLog>>
    /\ alertText # ""
    /\ alertText' = ""
    /\ UNCHANGED <<currentVideo, videoSrc, shouldColorize, framesPerSecond, gender,
                   processingState, extractedFrames, selectedFrameIds, enhancedImages,
                   framesBeingEnhanced, configuringVideo, isCancelled>>
    /\ UNCHANGED <<pc, extractLocals, enhanceLocals, reply, history>>

\* variant: the button is not disabled while a run is in progress
ChangeVideoAlwaysEnabled == TRUE

\* "Change Video": disabled={isProcessing}
ChangeVideoEnabled == ~isProcessing

\* handleRemoveVideo ("Change Video", disabled while processing)
HandleRemoveVideo ==
    /\ UNCHANGED <<fileDuration, guardReturns>>
    /\ PageResponsive /\ ProcessingViewShown /\ ChangeVideoEnabled
    /\ videoSrc' = FALSE
    /\ currentVideo' = NoVideo
    /\ ResetProcessingResults
    /\ processingState' = "idle"
    /\ UNCHANGED <<shouldColorize, framesPerSecond, gender, configuringVideo,
                   isCancelled, alertText>>
    /\ ForgetRun

\* the segment's "Edit" button: setConfiguringVideo(currentVideo)
OpenConfiguration ==
    /\ UNCHANGED <<fileDuration, guardReturns>>
    /\ PageResponsive /\ StepOneShown /\ ~isProcessing
    /\ BeforeFirstRun
    /\ configuringVideo' = TRUE
    /\ UNCHANGED <<currentVideo, videoSrc, shouldColorize, framesPerSecond, gender,
                   processingState, extractedFrames, selectedFrameIds, enhancedImages,
                   framesBeingEnhanced, isCancelled, alertText>>
    /\ ForgetRun

\* handleSaveConfiguration with the modal's start <= end <= duration
HandleSaveConfiguration ==
    /\ UNCHANGED <<fileDuration, guardReturns, acceptedLog>>
    /\ alertText = "" /\ configuringVideo
    /\ \E s \in 0..fileDuration : \E e \in s..fileDuration :
        currentVideo' = UpdateCurrentVideo(currentVideo,
                            [currentVideo EXCEPT !.startTime = s, !.endTime = e])
    /\ configuringVideo' = FALSE
    /\ UNCHANGED <<videoSrc, shouldColorize, framesPerSecond, gender,
                   processingState, extractedFrames, selectedFrameIds, enhancedImages,
                   framesBeingEnhanced, isCancelled, alertText>>
    /\ UNCHANGED <<pc, extractLocals, enhanceLocals, reply, history>>

\* the modal's onClose
CloseConfiguration ==
    /\ UNCHANGED <<fileDuration, guardReturns, acceptedLog>>
    /\ alertText = "" /\ configuringVideo
    /\ configuringVideo' = FALSE
    /\ UNCHANGED <<currentVideo, videoSrc, shouldColorize, framesPerSecond, gender,
                   processingState, extractedFrames, selectedFrameIds, enhancedImages,
                   framesBeingEnhanced, isCancelled, alertText>>
    /\ UNCHANGED <<pc, extractLocals, enhanceLocals, reply, history>>

\* setFramesPerSecond(fps)
SetFramesPerSecond ==
    /\ UNCHANGED <<fileDuration, guardReturns>>
    /\ PageResponsive /\ StepOneShown /\ ~isProcessing
    /\ BeforeFirstRun
    /\ \E fps \in FpsChoices \ {framesPerSecond} : framesPerSecond' = fps
    /\ UNCHANGED <<currentVideo, videoSrc, shouldColorize, gender,
                   processingState, extractedFrames, selectedFrameIds, enhancedImages,
                   framesBeingEnhanced, configuringVideo, isCancelled, alertText>>
    /\ ForgetRun

\* setGender(g)
SetGender ==
    /\ UNCHANGED <<fileDuration, guardReturns>>
    /\ PageResponsive /\ StepOneShown /\ ~isProcessing
    /\ BeforeFirstRun
    /\ \E g \in Genders \ {gender} : gender' = g
    /\ UNCHANGED <<currentVideo, videoSrc, shouldColorize, framesPerSecond,
                   processingState, extractedFrames, selectedFrameIds, enhancedImages,
                   framesBeingEnhanced, configuringVideo, isCancelled, alertText>>
    /\ ForgetRun

\* setShouldColorize(!shouldColorize)
SetShouldColorize ==
    /\ UNCHANGED <<fileDuration, guardReturns, acceptedLog>>
    /\ PageResponsive /\ ProcessingViewShown /\ ~StepOneShown /\ ~isProcessing
    /\ shouldColorize' = ~shouldColorize
    /\ UNCHANGED <<currentVideo, videoSrc, framesPerSecond, gender,
                   processingState, extractedFrames, selectedFrameIds, enhancedImages,
                   framesBeingEnhanced, configuringVideo, isCancelled, alertText>>
    /\ UNCHANGED <<pc, extractLocals, enhanceLocals, reply, history>>


\* variant: a handler starts with the flag as the last run left it
FlagAtRunStartKept(flag) == flag

\* isCancelledRef.current = false at the start of a handler
FlagAtRunStart(flag) == FALSE

\* ------------------------------------------------------------ extraction
\* variant: the message reports completion whatever the flag says
ExtractionFinalMessageComplete(flag, found) ==
    Msg("Processing complete. frames found.", found, 0)

\* `${isCancelledRef.current ? 'Processing cancelled' : 'Processing complete'}.
\*  ${foundFramesCount} frames found.`
ExtractionFinalMessage(flag, found) ==
    Msg(IF flag THEN "Processing cancelled. frames found."
                ELSE "Processing complete. frames found.",
        found, 0)

\* variant: the enhancement's final message does not look at the flag
EnhancementFinalMessageComplete(flag, images) ==
    Msg("Processing complete. Found images.", Len(images), 0)

\* `${isCancelledRef.current ? 'Processing cancelled' : 'Processing complete'}.
\*  Found ${newImages.length} images.`
EnhancementFinalMessage(flag, images) ==
    Msg(IF flag THEN "Processing cancelled. Found images."
                ELSE "Processing complete. Found images.",
        Len(images), 0)

\* variant: cleanup leaves the processing state as it is
CleanupForgotten == "processing"

\* cleanup(): setProcessingState('idle')
Cleanup == "idle"

\* A handler invocation returns: cleanup() / the end of handleEnhanceFrames.
\* base counts the invocations in flight, this one included.
Return(base, which) ==
    /\ pc' = "idle"
    /\ running' = base - 1
    /\ ended' = which

\* handleExtractFrames from the for-loop header at index k to the next await
\* or to the end of the handler.  cv, found, flag, state and begun are the
\* values of currentVideo, foundFramesCount, isCancelledRef.current,
\* processingState and iterBegun at that point.
ExtractLoop(k, start, interval, total, found, flag, cv, state, base, begun, seeks) ==
    IF LoopBound(k, total) /\ ~CancelCheck(flag)
    THEN /\ currentVideo' = UpdateCurrentVideo(cv,
                [cv EXCEPT !.progressMessage = Msg("Processing frame", k + 1, total),
                           !.progressCurrent = k])
         /\ processingState' = state
         /\ i' = k
         /\ pc' = "ext_seek"
         /\ running' = base
         /\ ended' = "none"
         /\ iterBegun' = begun + 1
         /\ seekLog' = Append(seeks, SampleTime(start, k, interval))
    ELSE /\ currentVideo' = UpdateCurrentVideo(cv,
                [cv EXCEPT !.status = "queued",
                           !.progressMessage = ExtractionFinalMessage(flag, found)])
         /\ processingState' = Cleanup
         /\ i' = k
         /\ iterBegun' = begun
         /\ seekLog' = seeks
         /\ Return(base, "extract:loop")

\* handleExtractFrames from the metadata check on, the metadata being loaded.
\* context is whether canvas.getContext returned a context.
ExtractBody(cv, flag, context, base) ==
    LET segmentDuration == cv.endTime - cv.startTime
        interval == FrameInterval(framesPerSecond)
        total == TotalFrames(segmentDuration, interval)
        analyzing == UpdateCurrentVideo(cv,
                        [cv EXCEPT !.progressMessage = Msg("Analyzing video...", 0, 0),
                                   !.progressCurrent = 0,
                                   !.progressTotal = total])
    IN  IF InvalidSegment(segmentDuration)
        THEN /\ currentVideo' = UpdateCurrentVideo(cv,
                    [cv EXCEPT !.status = "done",
                               !.progressMessage = Msg("Invalid segment selected.", 0, 0)])
             /\ processingState' = Cleanup
             /\ i' = 0 /\ startTime' = cv.startTime /\ frameInterval' = 0
             /\ totalFramesToProcess' = 0 /\ foundFramesCount' = 0
             /\ iterBegun' = 0 /\ seekLog' = <<>>
             /\ Return(base, "extract:invalid")
        ELSE IF ~context
        THEN /\ currentVideo' = UpdateCurrentVideo(analyzing,
                    [analyzing EXCEPT !.status = "error",
                                      !.error = "Could not create canvas context."])
             /\ processingState' = Cleanup
             /\ i' = 0 /\ startTime' = cv.startTime /\ frameInterval' = interval
             /\ totalFramesToProcess' = total /\ foundFramesCount' = 0
             /\ iterBegun' = 0 /\ seekLog' = <<>>
             /\ Return(base, "extract:canvas")
        ELSE /\ startTime' = cv.startTime
             /\ frameInterval' = interval
             /\ totalFramesToProcess' = total
             /\ foundFramesCount' = 0
             /\ ExtractLoop(0, cv.startTime, interval, total, 0, flag, analyzing,
                            "processing", base, 0, <<>>)

\* the "Extract Frames" button: handleExtractFrames up to its first await
HandleExtractFrames ==
    /\ UNCHANGED <<fileDuration, guardReturns>>
    /\ PageResponsive /\ ExtractButtonShown
    /\ VideoElementMounted /\ videoSrc
    /\ isCancelled' = FlagAtRunStart(isCancelled)
    /\ ResetProcessingResults
    /\ begunAtCancel' = -1 /\ everyMatched' = TRUE /\ matchCount' = 0
    /\ acceptedLog' = <<>>
    /\ enhancerCalls' = <<>> /\ enhancerResults' = <<>>
    /\ LET cv == UpdateCurrentVideo(currentVideo,
                    [currentVideo EXCEPT !.status = "processing",
                                         !.progressMessage = Msg("Initializing...", 0, 0),
                                         !.resultCount = 0,
                                         !.thumbnailDataUrl = NoImage])
       IN \E haveMetadata \in BOOLEAN, context \in BOOLEAN :
            IF haveMetadata
            THEN ExtractBody(cv, FlagAtRunStart(isCancelled), context, running + 1)
            ELSE /\ context
                 /\ currentVideo' = cv
                 /\ processingState' = "processing"
                 /\ pc' = "ext_meta"
                 /\ running' = running + 1
                 /\ ended' = "none"
                 /\ iterBegun' = 0 /\ seekLog' = <<>>
                 /\ i' = 0 /\ startTime' = 0 /\ frameInterval' = 0
                 /\ totalFramesToProcess' = 0 /\ foundFramesCount' = 0
    /\ UNCHANGED <<videoSrc, shouldColorize, framesPerSecond, gender,
                   configuringVideo, alertText, enhanceLocals, reply>>

\* videoEl.onloadedmetadata resolves the awaited promise
MetadataLoaded ==
    /\ UNCHANGED <<fileDuration, guardReturns, acceptedLog>>
    /\ alertText = "" /\ pc = "ext_meta"
    /\ \E context \in BOOLEAN :
        ExtractBody(currentVideo, isCancelled, context, running)
    /\ UNCHANGED <<videoSrc, shouldColorize, framesPerSecond, gender,
                   extractedFrames, selectedFrameIds, enhancedImages,
                   framesBeingEnhanced, configuringVideo, isCancelled, alertText,
                   enhanceLocals, reply, begunAtCancel, everyMatched, matchCount, enhancerCalls,
                   enhancerResults>>

\* variant: the catch block returns without recording the failure
MetadataFailureSilent(cv) == cv

\* catch (e): updateCurrentVideo({ status: 'error', error: e.toString() })
MetadataFailure(cv) ==
    UpdateCurrentVideo(cv, [cv EXCEPT !.status = "error",
                                      !.error = "Failed to load video metadata."])

\* videoEl.onerror rejects the awaited promise
MetadataError ==
    /\ UNCHANGED <<fileDuration, guardReturns, acceptedLog>>
    /\ alertText = "" /\ pc = "ext_meta"
    /\ currentVideo' = MetadataFailure(currentVideo)
    /\ processingState' = Cleanup
    /\ Return(running, "extract:metadata")
    /\ UNCHANGED <<videoSrc, shouldColorize, framesPerSecond, gender,
                   extractedFrames, selectedFrameIds, enhancedImages,
                   framesBeingEnhanced, configuringVideo, isCancelled, alertText,
                   extractLocals, enhanceLocals, reply,
                   iterBegun, begunAtCancel, seekLog, everyMatched, matchCount, enhancerCalls,
                   enhancerResults>>

\* 'seeked': the frame is drawn and encoded, the preview updated, and
\* filterFrameByGender issues its generateContent call
SeekSeeked ==
    /\ UNCHANGED <<fileDuration, guardReturns, acceptedLog>>
    /\ alertText = "" /\ pc = "ext_seek"
    /\ currentVideo' = UpdateCurrentVideo(currentVideo,
            [currentVideo EXCEPT !.thumbnailDataUrl = Preview])
    /\ pc' = "ext_classify"
    /\ UNCHANGED <<videoSrc, shouldColorize, framesPerSecond, gender,
                   processingState, extractedFrames, selectedFrameIds, enhancedImages,
                   framesBeingEnhanced, configuringVideo, isCancelled, alertText,
                   extractLocals, enhanceLocals, reply, history>>

\* variant: the try block encloses the loop, a failure leaves it
SeekFailureLeavesLoop(k, total) == total

\* catch (err) inside the loop body: the next iteration is i + 1
SeekFailureNext(k, total) == k + 1

\* 'error' while seeking: the catch block logs and the loop goes on
SeekError ==
    /\ UNCHANGED <<fileDuration, guardReturns, acceptedLog>>
    /\ alertText = "" /\ pc = "ext_seek"
    /\ ExtractLoop(SeekFailureNext(i, totalFramesToProcess), startTime, frameInterval,
                   totalFramesToProcess,
                   foundFramesCount, isCancelled, currentVideo, processingState,
                   running, iterBegun, seekLog)
    /\ everyMatched' = FALSE
    /\ UNCHANGED matchCount
    /\ UNCHANGED <<videoSrc, shouldColorize, framesPerSecond, gender,
                   extractedFrames, selectedFrameIds, enhancedImages,
                   framesBeingEnhanced, configuringVideo, isCancelled, alertText,
                   startTime, frameInterval, totalFramesToProcess, foundFramesCount,
                   enhanceLocals, reply, begunAtCancel, enhancerCalls,
                   enhancerResults>>

\* the classification service answers, or the call fails
ClassifierResolves ==
    /\ UNCHANGED <<fileDuration, guardReturns, acceptedLog>>
    /\ alertText = "" /\ pc = "ext_classify"
    /\ \E r \in ClassifierReplies :
        /\ reply' = r
        /\ everyMatched' = (everyMatched /\ RepliesAsRequested(r, gender))
        /\ matchCount' = IF RepliesAsRequested(r, gender)
                         THEN matchCount + 1 ELSE matchCount
    /\ pc' = "ext_reply"
    /\ UNCHANGED <<appVars, extractLocals, enhanceLocals,
                   running, ended, iterBegun, begunAtCancel, seekLog, enhancerCalls,
                   enhancerResults>>

\* variant: the call is not awaited, the handler goes on with the pending promise
ClassifierNotAwaited(p) == p \in {"ext_classify", "ext_reply"}

\* await filterFrameByGender(dataUrl, gender): the handler goes on once the
\* call has resolved
ClassifierAwaited(p) == p = "ext_reply"

\* variant: the new frame is appended to the frames the handler was created
\* with (none, after the reset at the start of the run)
AppendFrameToCaptured(prev, newFrame) == <<newFrame>>

\* setExtractedFrames(prev => [...prev, newFrame])
AppendFrame(prev, newFrame) == Append(prev, newFrame)

\* handleExtractFrames resumes with filterFrameByGender's result
ExtractResume ==
    /\ UNCHANGED <<fileDuration, guardReturns>>
    /\ alertText = "" /\ ClassifierAwaited(pc)
    /\ LET currentTime == SampleTime(startTime, i, frameInterval)
           newFrame == [timestamp |-> currentTime, dataUrl |-> Capture(currentTime)]
           matched == AcceptCondition(reply, gender, isCancelled)
           found == IF matched THEN foundFramesCount + 1 ELSE foundFramesCount
           cv == IF matched
                 THEN UpdateCurrentVideo(currentVideo,
                          [currentVideo EXCEPT !.resultCount = found])
                 ELSE currentVideo
       IN /\ extractedFrames' = IF matched THEN AppendFrame(extractedFrames, newFrame)
                                           ELSE extractedFrames
          /\ acceptedLog' = IF matched THEN Append(acceptedLog, newFrame)
                                       ELSE acceptedLog
          /\ foundFramesCount' = found
          /\ ExtractLoop(i + 1, startTime, frameInterval, totalFramesToProcess,
                         found, isCancelled, cv, processingState, running,
                         iterBegun, seekLog)
    /\ reply' = NoReply
    /\ UNCHANGED <<videoSrc, shouldColorize, framesPerSecond, gender,
                   selectedFrameIds, enhancedImages,
                   framesBeingEnhanced, configuringVideo, isCancelled, alertText,
                   startTime, frameInterval, totalFramesToProcess,
                   enhanceLocals, begunAtCancel, everyMatched, matchCount, enhancerCalls,
                   enhancerResults>>

\* the Cancel button: handleCancel
HandleCancel ==
    /\ UNCHANGED <<fileDuration, guardReturns, acceptedLog>>
    /\ PageResponsive /\ CancelButtonShown
    /\ isCancelled' = TRUE
    /\ currentVideo' = UpdateCurrentVideo(currentVideo,
            [currentVideo EXCEPT !.progressMessage = Msg("Cancelling...", 0, 0)])
    /\ begunAtCancel' = IF begunAtCancel = -1 THEN iterBegun ELSE begunAtCancel
    /\ UNCHANGED <<videoSrc, shouldColorize, framesPerSecond, gender,
                   processingState, extractedFrames, selectedFrameIds, enhancedImages,
                   framesBeingEnhanced, configuringVideo, alertText,
                   pc, extractLocals, enhanceLocals, reply,
                   running, ended, iterBegun, seekLog, everyMatched, matchCount, enhancerCalls,
                   enhancerResults>>

\* ----------------------------------------------------------- enhancement
\* variant: the images of the earlier run are left in place
ClearedImagesKept(prev) == prev

\* setEnhancedImages([]) at the start of handleEnhanceFrames
ClearedImages(prev) == <<>>

\* handleEnhanceFrames from the for-loop header at index k to the next await
\* or to the end of the handler
EnhanceLoop(k, frames, reference, images, flag, cv, state, base, begun, calls) ==
    IF LoopBound(k, Len(frames)) /\ ~CancelCheck(flag)
    THEN /\ currentVideo' = cv
         /\ processingState' = state
         /\ j' = k
         /\ pc' = "enh_call"
         /\ running' = base
         /\ ended' = "none"
         /\ iterBegun' = begun + 1
         /\ enhancerCalls' = Append(calls,
                [image |-> frames[k + 1].dataUrl,
                 reference |-> reference.dataUrl,
                 colorize |-> shouldColorize])
    ELSE /\ currentVideo' = UpdateCurrentVideo(cv,
                [cv EXCEPT !.status = "done",
                           !.progressMessage = EnhancementFinalMessage(flag, images)])
         /\ processingState' = "done"
         /\ j' = k
         /\ iterBegun' = begun
         /\ enhancerCalls' = calls
         /\ Return(base, "enhance")

\* variant: the handler goes on with an empty selection
NothingToEnhanceNoVideoOnly(frames, cv) == cv = NoVideo

\* if (framesToEnhance.length === 0 || !currentVideo) return
NothingToEnhance(frames, cv) == Len(frames) = 0 \/ cv = NoVideo

\* handleEnhanceFrames from its guard to its first await (or to its end)
EnhanceStart(frames) ==
    IF NothingToEnhance(frames, currentVideo)
    THEN UNCHANGED <<appVars, pc, extractLocals, enhanceLocals, reply, history>>
    ELSE /\ LET cv == UpdateCurrentVideo(currentVideo,
                        [currentVideo EXCEPT !.status = "processing",
                                             !.progressMessage = Msg("Enhancing images...", Len(frames), 0),
                                             !.progressCurrent = 0,
                                             !.progressTotal = Len(frames)])
            IN /\ isCancelled' = FlagAtRunStart(isCancelled)
               /\ enhancedImages' = ClearedImages(enhancedImages)
               /\ framesBeingEnhanced' = frames
               /\ framesToEnhance' = frames
               /\ referenceFrame' = ReferenceFrame(frames)
               /\ newImages' = <<>>
               /\ begunAtCancel' = -1
               /\ enhancerResults' = <<>>
               /\ EnhanceLoop(0, frames, ReferenceFrame(frames), <<>>,
                              FlagAtRunStart(isCancelled), cv,
                              "processing", running + 1, 0, <<>>)
         /\ UNCHANGED <<videoSrc, shouldColorize, framesPerSecond, gender,
                        extractedFrames, selectedFrameIds, configuringVideo, alertText,
                        extractLocals, reply, seekLog, everyMatched, matchCount>>

\* the "Enhance n Frames" button: handleEnhanceFrames
HandleEnhanceFrames ==
    /\ UNCHANGED <<fileDuration, guardReturns, acceptedLog>>
    /\ PageResponsive /\ EnhanceButtonEnabled
    /\ EnhanceStart(SelectedFrames(extractedFrames, selectedFrameIds))

\* handleEnhanceFrames invoked while nothing is selected (the button that
\* calls it is rendered, and disabled)
HandleEnhanceFramesNothingSelected ==
    /\ UNCHANGED <<fileDuration, acceptedLog>>
    /\ PageResponsive /\ ProcessingViewShown /\ ~isProcessing
    /\ Len(extractedFrames) # 0
    /\ Cardinality(selectedFrameIds) = 0
    /\ guardReturns' = TRUE
    /\ EnhanceStart(SelectedFrames(extractedFrames, selectedFrameIds))

\* the enhancement service answers (with or without an image), or the call fails
EnhancerResolves ==
    /\ UNCHANGED <<fileDuration, guardReturns, acceptedLog>>
    /\ alertText = "" /\ pc = "enh_call"
    /\ \E r \in EnhancerReplies :
        /\ reply' = r
        /\ enhancerResults' = Append(enhancerResults, r.ok /\ r.image)
    /\ pc' = "enh_reply"
    /\ UNCHANGED <<appVars, extractLocals, enhanceLocals,
                   running, ended, iterBegun, begunAtCancel, seekLog, everyMatched,
                   matchCount, enhancerCalls>>

\* The decimal digit n as a character.
Digit(n) == <<"0", "1", "2", "3", "4", "5", "6", "7", "8", "9">>[n + 1]

\* Number.prototype.toString of a natural number
RECURSIVE IntText(_)
IntText(n) == IF n < 10 THEN <<Digit(n)>> ELSE IntText(n \div 10) \o <<Digit(n % 10)>>

\* Number.prototype.toString of a time of t ticks, in seconds: the whole
\* part, and the fraction in hundredths without a trailing zero
NumberText(t) ==
    LET hundredths == ((t % TicksPerSec) * 100) \div TicksPerSec
    IN  IntText(t \div TicksPerSec)
            \o (IF hundredths = 0 THEN <<>>
                ELSE IF hundredths % 10 = 0 THEN <<".", Digit(hundredths \div 10)>>
                ELSE <<".", Digit(hundredths \div 10), Digit(hundredths % 10)>>)

\* variant: the id is the timestamp in whole seconds, without the position
ImageIdWholeSeconds(timestamp, k) == IntText(timestamp \div TicksPerSec)

\* id: `${frame.timestamp}-${j}`
ImageId(timestamp, k) == NumberText(timestamp) \o <<"-">> \o IntText(k)

\* variant: the new image is put in front of the others
PushImageFirst(images, image) == <<image>> \o images

\* newImages.push(newImage)
PushImage(images, image) == Append(images, image)

\* variant: the counter is advanced only where an image was produced
ProgressAfterFrameOnSuccess(k, produced, current) ==
    IF produced THEN k + 1 ELSE current

\* updateCurrentVideo({ progressCurrent: j + 1 }) after the try/catch
ProgressAfterFrame(k, produced, current) == k + 1

\* handleEnhanceFrames resumes with enhanceImage's result
EnhanceResume ==
    /\ UNCHANGED <<fileDuration, guardReturns, acceptedLog>>
    /\ alertText = "" /\ pc = "enh_reply"
    /\ LET frame == framesToEnhance[j + 1]
           enhancedUrl == ProducedUrl(reply, frame.dataUrl, isCancelled)
           newImage == [id |-> ImageId(frame.timestamp, j),
                        originalTimestamp |-> frame.timestamp,
                        url |-> enhancedUrl]
           images == IF enhancedUrl # NoImage THEN PushImage(newImages, newImage)
                                              ELSE newImages
           shown == IF enhancedUrl # NoImage
                    THEN UpdateCurrentVideo(currentVideo,
                            [currentVideo EXCEPT !.thumbnailDataUrl = Preview,
                                                 !.resultCount = Len(images)])
                    ELSE currentVideo
           cv == UpdateCurrentVideo(shown,
                    [shown EXCEPT !.progressCurrent =
                        ProgressAfterFrame(j, enhancedUrl # NoImage,
                                           shown.progressCurrent)])
       IN /\ newImages' = images
          /\ enhancedImages' = IF enhancedUrl # NoImage
                               THEN images
                               ELSE enhancedImages
          /\ EnhanceLoop(j + 1, framesToEnhance, referenceFrame, images, isCancelled,
                         cv, processingState, running, iterBegun, enhancerCalls)
    /\ reply' = NoReply
    /\ UNCHANGED <<videoSrc, shouldColorize, framesPerSecond, gender,
                   extractedFrames, selectedFrameIds, framesBeingEnhanced,
                   configuringVideo, isCancelled, alertText,
                   extractLocals, framesToEnhance, referenceFrame, begunAtCancel,
                   seekLog, everyMatched, matchCount, enhancerResults>>

\* ------------------------------------------------- selection and cropping
\* a click on a gallery tile: handleFrameSelection(timestamp)
HandleFrameSelection ==
    /\ UNCHANGED <<fileDuration, guardReturns, acceptedLog>>
    /\ PageResponsive /\ GalleryShown
    /\ \E timestamp \in TimestampSet(extractedFrames) :
        LET updated == FrameSelectionUpdate(selectedFrameIds, timestamp)
        IN  /\ selectedFrameIds' = updated.ids
            /\ alertText' = IF updated.notice
                            THEN "You can only select a maximum of 8 frames."
                            ELSE alertText
    /\ UNCHANGED <<currentVideo, videoSrc, shouldColorize, framesPerSecond, gender,
                   processingState, extractedFrames, enhancedImages,
                   framesBeingEnhanced, configuringVideo, isCancelled>>
    /\ UNCHANGED <<pc, extractLocals, enhanceLocals, reply, history>>

\* "Select All"
SelectAll ==
    /\ UNCHANGED <<fileDuration, guardReturns, acceptedLog>>
    /\ PageResponsive /\ GalleryShown
    /\ selectedFrameIds' = FirstTimestamps(extractedFrames)
    /\ UNCHANGED <<currentVideo, videoSrc, shouldColorize, framesPerSecond, gender,
                   processingState, extractedFrames, enhancedImages,
                   framesBeingEnhanced, configuringVideo, isCancelled, alertText>>
    /\ UNCHANGED <<pc, extractLocals, enhanceLocals, reply, history>>

\* "Deselect All"
DeselectAll ==
    /\ UNCHANGED <<fileDuration, guardReturns, acceptedLog>>
    /\ PageResponsive /\ GalleryShown
    /\ selectedFrameIds' = {}
    /\ UNCHANGED <<currentVideo, videoSrc, shouldColorize, framesPerSecond, gender,
                   processingState, extractedFrames, enhancedImages,
                   framesBeingEnhanced, configuringVideo, isCancelled, alertText>>
    /\ UNCHANGED <<pc, extractLocals, enhanceLocals, reply, history>>

\* the crop dialog's Save: handleSaveCrop(timestamp, newDataUrl)
HandleSaveCrop ==
    /\ UNCHANGED <<fileDuration, guardReturns, acceptedLog>>
    /\ PageResponsive /\ GalleryShown
    /\ \E k \in 1..Len(extractedFrames) :
        /\ CropsSaved(extractedFrames) < MaxCrops
        /\ extractedFrames' = WithCrop(extractedFrames, extractedFrames[k].timestamp)
    /\ UNCHANGED <<currentVideo, videoSrc, shouldColorize, framesPerSecond, gender,
                   processingState, selectedFrameIds, enhancedImages,
                   framesBeingEnhanced, configuringVideo, isCancelled, alertText>>
    /\ UNCHANGED <<pc, extractLocals, enhanceLocals, reply, history>>

\* ------------------------------------------------------------------ Next
Next ==
    \/ HandleFileSelect
    \/ DismissAlert
    \/ HandleRemoveVideo
    \/ OpenConfiguration
    \/ HandleSaveConfiguration
    \/ CloseConfiguration
    \/ SetFramesPerSecond
    \/ SetGender
    \/ SetShouldColorize
    \/ HandleExtractFrames
    \/ MetadataLoaded
    \/ MetadataError
    \/ SeekSeeked
    \/ SeekError
    \/ ClassifierResolves
    \/ ExtractResume
    \/ HandleCancel
    \/ HandleEnhanceFrames
    \/ EnhancerResolves
    \/ EnhanceResume
    \/ HandleFrameSelection
    \/ SelectAll
    \/ DeselectAll
    \/ HandleSaveCrop


Spec == Init /\ [][Next]_vars

\* Sampling on a longer video: the set-up and extraction handlers alone.
NextSampling ==
    \/ HandleFileSelect
    \/ DismissAlert
    \/ HandleRemoveVideo
    \/ OpenConfiguration
    \/ HandleSaveConfiguration
    \/ CloseConfiguration
    \/ SetFramesPerSecond
    \/ SetGender
    \/ HandleExtractFrames
    \/ MetadataLoaded
    \/ MetadataError
    \/ SeekSeeked
    \/ SeekError
    \/ ClassifierResolves
    \/ ExtractResume
    \/ HandleCancel

SpecSampling == InitLong /\ [][NextSampling]_vars

\* Every seek and every remote call resolves, and a resolved promise's
\* continuation runs.  Nothing is assumed of the user, nor of the wait for
\* the preview's metadata.
InitLive == fileDuration = LiveDuration /\ InitApp

Fairness ==
    /\ WF_vars(SeekSeeked \/ SeekError)
    /\ WF_vars(ClassifierResolves)
    /\ WF_vars(ExtractResume)
    /\ WF_vars(EnhancerResolves)
    /\ WF_vars(EnhanceResume)

SpecLive == InitLive /\ [][Next]_vars /\ Fairness

\* The application with handleEnhanceFrames also invoked while nothing is
\* selected.
NextEntry == Next \/ HandleEnhanceFramesNothingSelected

SpecEntry == InitLive /\ [][NextEntry]_vars

\* Selecting among more frames than can be selected: the default settings,
\* the whole file as segment, extraction and the gallery's selection handlers.
InitSelection == fileDuration = SelectionDuration /\ InitApp

NextSelection ==
    \/ HandleFileSelect
    \/ DismissAlert
    \/ HandleRemoveVideo
    \/ CloseConfiguration
    \/ HandleExtractFrames
    \/ MetadataLoaded
    \/ SeekSeeked
    \/ ClassifierResolves
    \/ ExtractResume
    \/ HandleFrameSelection
    \/ SelectAll
    \/ DeselectAll

SpecSelection == InitSelection /\ [][NextSelection]_vars

\* The application on a recording long enough for more frames than can be
\* selected, with a user who selects through "select all" and enhances.
NextCapacity ==
    \/ HandleFileSelect
    \/ CloseConfiguration
    \/ HandleExtractFrames
    \/ MetadataLoaded
    \/ SeekSeeked
    \/ ClassifierResolves
    \/ ExtractResume
    \/ SelectAll
    \/ HandleEnhanceFrames
    \/ EnhancerResolves
    \/ EnhanceResume

SpecCapacity == InitSelection /\ [][NextCapacity]_vars

\* ================================================================ claims
\* The run in the handler, or the run that returned last.
ExtractionRun ==
    \/ pc \in {"ext_meta", "ext_seek", "ext_classify", "ext_reply"}
    \/ ended \in {"extract:loop", "extract:invalid", "extract:canvas", "extract:metadata"}
EnhancementRun == pc \in {"enh_call", "enh_reply"} \/ ended = "enhance"

InExtractLoop == pc \in {"ext_seek", "ext_classify", "ext_reply"}

\* endTime - startTime of the configured segment, in ticks
SegmentTicks == currentVideo.endTime - currentVideo.startTime

\* the frame captured by the sample whose seek was issued last
LastSampleFrame ==
    [timestamp |-> seekLog[Len(seekLog)], dataUrl |-> Capture(seekLog[Len(seekLog)])]

C2_InFlightResultKept ==
    [][ /\ (pc = "ext_reply" /\ pc' # "ext_reply" /\ isCancelled
                /\ RepliesAsRequested(reply, gender))
            => extractedFrames' = Append(extractedFrames, LastSampleFrame)
        /\ (pc = "enh_reply" /\ pc' # "enh_reply" /\ isCancelled
                /\ reply.ok /\ reply.image)
            => /\ Len(enhancedImages') = Len(enhancedImages) + 1
               /\ enhancedImages'[Len(enhancedImages')].originalTimestamp
                      = framesToEnhance[j + 1].timestamp
               /\ SubSeq(enhancedImages', 1, Len(enhancedImages)) = enhancedImages
      ]_vars

\* a cancelled extraction has returned, and the frame of the sample that was
\* in flight at the cancel request is the last accepted frame
C2_Witness ==
    /\ ended = "extract:loop"
    /\ isCancelled
    /\ begunAtCancel >= 1
    /\ Len(extractedFrames) >= 1
    /\ extractedFrames[Len(extractedFrames)].timestamp = seekLog[begunAtCancel]

\* ---------------------------------------------------------------- C3
\* C3: at most one pipeline run is in progress at any time: while
\* processingState is 'processing' (the time between a cancel request and the
\* loop's exit included) neither handleExtractFrames nor handleEnhanceFrames
\* can be started.
C3_OneRunAtATime ==
    /\ running <= 1
    /\ (running = 1) <=> isProcessing
    /\ isProcessing =>
        /\ ~ENABLED HandleExtractFrames
        /\ ~ENABLED HandleEnhanceFrames

\* cancel has been requested, the loop has not exited yet, the page reacts
C3_Witness ==
    /\ isProcessing
    /\ isCancelled
    /\ pc = "ext_classify"
    /\ PageResponsive

\* ---------------------------------------------------------------- C4
\* C4 as stated: whenever processingState is 'processing' or 'done', no
\* start-extraction and no start-enhancement action is enabled.
C4_StartOnlyWhenIdle ==
    processingState \in {"processing", "done"} =>
        /\ ~ENABLED HandleExtractFrames
        /\ ~ENABLED HandleEnhanceFrames

\* C4 amended: no run can be started while processingState is 'processing';
\* extraction can be started only when it is 'idle'; enhancement can be
\* started when it is 'idle' and also when it is 'done' (the selection is
\* kept, the Enhance button is shown again).
C4_StartNeverWhileProcessing ==
    /\ ENABLED HandleExtractFrames => processingState = "idle"
    /\ ENABLED HandleEnhanceFrames => processingState \in {"idle", "done"}

\* after a completed enhancement the Enhance button works again
C4_Witness ==
    /\ processingState = "done"
    /\ ended = "enhance"
    /\ ENABLED HandleEnhanceFrames
    /\ ~ENABLED HandleExtractFrames

\* ---------------------------------------------------------------- C5
\* C5: with a segment whose endTime <= startTime, an extraction whose video
\* metadata can be read never enters the sampling loop (no seek, no capture,
\* no classifier call), leaves extractedFrames empty and returns with
\* processingState 'idle' and the status 'done' ("Invalid segment
\* selected."), not 'error'.
C5_EmptySegmentShortCircuits ==
    currentVideo.endTime <= currentVideo.startTime =>
        /\ ~InExtractLoop
        /\ ended \in {"extract:loop", "extract:invalid", "extract:canvas"} =>
            /\ ended = "extract:invalid"
            /\ iterBegun = 0
            /\ seekLog = <<>>
            /\ extractedFrames = <<>>
            /\ currentVideo.thumbnailDataUrl = NoImage
            /\ processingState = "idle"
            /\ currentVideo.status = "done"
            /\ currentVideo.progressMessage = Msg("Invalid segment selected.", 0, 0)

\* an extraction on an empty segment inside the video has returned
C5_Witness ==
    /\ ended = "extract:invalid"
    /\ currentVideo.startTime > 0
    /\ currentVideo.endTime = currentVideo.startTime

\* ---------------------------------------------------------------- C6
\* C6: with a segment of positive duration D, an extraction that is not
\* cancelled (and whose set-up succeeds) performs exactly floor(D * fps)
\* sample iterations, and the progress total it reports is floor(D * fps).
C6_IterationCount ==
    LET floorDFps == (SegmentTicks * framesPerSecond) \div TicksPerSec
    IN  SegmentTicks > 0 =>
            /\ InExtractLoop =>
                /\ totalFramesToProcess = floorDFps
                /\ currentVideo.progressTotal = floorDFps
            /\ (ended = "extract:loop" /\ ~isCancelled) =>
                /\ iterBegun = floorDFps
                /\ Len(seekLog) = floorDFps
                /\ currentVideo.progressTotal = floorDFps

\* a completed run on a segment for which D * fps is not a whole number
C6_Witness ==
    /\ ended = "extract:loop"
    /\ ~isCancelled
    /\ (SegmentTicks * framesPerSecond) % TicksPerSec # 0
    /\ iterBegun >= 2

\* ---------------------------------------------------------------- C7
\* C7 as stated: sample i is taken at startTime + i * (segmentDuration /
\* sampleCount), the samples being evenly spaced over the segment.
C7_EvenSpacing ==
    LET sampleCount == (SegmentTicks * framesPerSecond) \div TicksPerSec
    IN  \A n \in 1..Len(seekLog) :
            (seekLog[n] - currentVideo.startTime) * sampleCount
                = (n - 1) * SegmentTicks

\* C7 amended: sample i is taken at startTime + i * (1 / fps), a fixed stride
\* of one sample interval, sample 0 at startTime itself; this is the even
\* spacing startTime + i * (segmentDuration / sampleCount) exactly when
\* segmentDuration * fps is a whole number.
C7_FixedStride ==
    LET sampleCount == (SegmentTicks * framesPerSecond) \div TicksPerSec
    IN  \A n \in 1..Len(seekLog) :
            /\ (seekLog[n] - currentVideo.startTime) * framesPerSecond
                    = (n - 1) * TicksPerSec
            /\ n = 1 => seekLog[n] = currentVideo.startTime
            /\ ((SegmentTicks * framesPerSecond) % TicksPerSec = 0
                    \/ Len(seekLog) <= 1) <=>
               (\A m \in 1..Len(seekLog) :
                   (seekLog[m] - currentVideo.startTime) * sampleCount
                       = (m - 1) * SegmentTicks)

\* the second sample of a segment for which D * fps is not a whole number
C7_Witness ==
    /\ Len(seekLog) >= 2
    /\ currentVideo.startTime > 0
    /\ (SegmentTicks * framesPerSecond) % TicksPerSec # 0
    /\ (seekLog[2] - currentVideo.startTime)
            * ((SegmentTicks * framesPerSecond) \div TicksPerSec) # SegmentTicks

\* ---------------------------------------------------------------- C8
\* C8: the sample timestamps of a run are strictly increasing and every one
\* of them satisfies startTime <= t < endTime; so do the timestamps of the
\* accepted frames.
C8_TimestampsIncreasingInSegment ==
    /\ \A n \in 1..Len(seekLog) :
        /\ currentVideo.startTime <= seekLog[n]
        /\ seekLog[n] < currentVideo.endTime
        /\ n > 1 => seekLog[n - 1] < seekLog[n]
    /\ \A k \in 1..Len(extractedFrames) :
        /\ currentVideo.startTime <= extractedFrames[k].timestamp
        /\ extractedFrames[k].timestamp < currentVideo.endTime
        /\ k > 1 => extractedFrames[k - 1].timestamp < extractedFrames[k].timestamp

\* a completed run whose last sample lies one interval before endTime
C8_Witness ==
    /\ ended = "extract:loop"
    /\ ~isCancelled
    /\ Len(seekLog) >= 3
    /\ Len(extractedFrames) >= 2
    /\ currentVideo.startTime > 0
    /\ seekLog[Len(seekLog)] + frameInterval = currentVideo.endTime

C10_GenderFilterAcceptsLabel ==
    [][ (pc = "ext_reply" /\ pc' # "ext_reply" /\ gender \in {"Male", "Female"}) =>
            IF reply.ok /\ ToLowerCase(Trim(reply.text)) = ToLowerCase(GenderText(gender))
            THEN extractedFrames' = Append(extractedFrames, LastSampleFrame)
            ELSE extractedFrames' = extractedFrames
      ]_vars

\* a run with the 'Female' filter kept one frame and passed over another
C10_Witness ==
    /\ gender = "Female"
    /\ ended = "extract:loop"
    /\ Len(seekLog) >= 2
    /\ Len(extractedFrames) >= 1
    /\ Len(extractedFrames) < Len(seekLog)

\* --------------------------------------------------------------- C11
\* C11: a failed classifier call is a non-match: the frame is not appended,
\* the status does not become 'error', and the loop goes on with the next
\* sample (or, after the last sample or a cancel request, finishes in the
\* ordinary way).  When no reply of a run is the requested one (failures and
\* other labels only), the run ends with extractedFrames empty, status
\* 'queued' and processingState 'idle'.
C11_ClassifierFailureIsNonMatch ==
    /\ [][ (pc = "ext_reply" /\ pc' # "ext_reply" /\ ~reply.ok) =>
              /\ extractedFrames' = extractedFrames
              /\ currentVideo'.status # "error"
              /\ IF i + 1 < totalFramesToProcess /\ ~isCancelled
                 THEN /\ pc' = "ext_seek"
                      /\ i' = i + 1
                      /\ processingState' = "processing"
                 ELSE /\ ended' = "extract:loop"
                      /\ processingState' = "idle"
         ]_vars
    /\ []( (ended = "extract:loop" /\ matchCount = 0) =>
              /\ extractedFrames = <<>>
              /\ currentVideo.status = "queued"
              /\ processingState = "idle" )

\* an uncancelled run of several samples, all classified, none as requested
C11_Witness ==
    /\ ended = "extract:loop"
    /\ ~isCancelled
    /\ Len(seekLog) >= 2
    /\ matchCount = 0
    /\ extractedFrames = <<>>
    /\ currentVideo.thumbnailDataUrl # NoImage
    /\ currentVideo.status = "queued"

\* --------------------------------------------------------------- C12
\* C12: in every reachable state selectedFrameIds holds at most
\* MAX_SELECTED_FRAMES = 8 timestamps, also when more than 8 frames were
\* accepted and whatever clicks, select-all, deselect-all, extraction and
\* video-change steps came before.
C12_SelectionAtMostMax ==
    /\ Cardinality(selectedFrameIds) <= MAX_SELECTED_FRAMES
    /\ selectedFrameIds \subseteq TimestampSet(extractedFrames)

\* the selection is full and an accepted frame is left outside it
C12_Witness ==
    /\ Cardinality(selectedFrameIds) = 8
    /\ Len(extractedFrames) > 8
    /\ alertText = ""

\* --------------------------------------------------------------- C13
\* C13: a click on a frame that is not selected, the selection holding
\* MAX_SELECTED_FRAMES timestamps already, leaves the selection exactly as it
\* was and raises the capacity notice; the notice is raised in no other case;
\* a click on a selected frame removes it, whatever the size of the selection.
C13_ToggleAtCapacity ==
    /\ [](\A t \in TimestampSet(extractedFrames) :
            LET updated == FrameSelectionUpdate(selectedFrameIds, t)
            IN  /\ (t \notin selectedFrameIds
                        /\ Cardinality(selectedFrameIds) = MAX_SELECTED_FRAMES)
                    => (updated.ids = selectedFrameIds /\ updated.notice)
                /\ t \in selectedFrameIds
                    => (updated.ids = selectedFrameIds \ {t} /\ ~updated.notice))
    /\ [][ HandleFrameSelection =>
              IF Cardinality(selectedFrameIds) = MAX_SELECTED_FRAMES
                    /\ selectedFrameIds' = selectedFrameIds
              THEN alertText' = "You can only select a maximum of 8 frames."
              ELSE /\ alertText' = alertText
                   /\ \E t \in TimestampSet(extractedFrames) :
                        \/ t \in selectedFrameIds
                            /\ selectedFrameIds' = selectedFrameIds \ {t}
                        \/ t \notin selectedFrameIds
                            /\ Cardinality(selectedFrameIds) < MAX_SELECTED_FRAMES
                            /\ selectedFrameIds' = selectedFrameIds \cup {t}
         ]_vars

\* the notice is up, the selection is full, a ninth frame is left outside it
C13_Witness ==
    /\ alertText = "You can only select a maximum of 8 frames."
    /\ Cardinality(selectedFrameIds) = MAX_SELECTED_FRAMES
    /\ Len(extractedFrames) = 9

\* --------------------------------------------------------------- C14
\* C14: for the selection S of any reachable state and any accepted frame's
\* timestamp t, two clicks on t in succession give S again - when S is full
\* and t is not in it, both clicks leave S as it is.
C14_ToggleTwice ==
    \A t \in TimestampSet(extractedFrames) :
        LET once == FrameSelectionUpdate(selectedFrameIds, t).ids
            twice == FrameSelectionUpdate(once, t).ids
        IN  /\ twice = selectedFrameIds
            /\ (t \notin selectedFrameIds
                    /\ Cardinality(selectedFrameIds) = MAX_SELECTED_FRAMES)
                => once = selectedFrameIds

\* a full selection made by clicks (the first frame is not in it), on which a
\* click on that frame has just been refused
C14_Witness ==
    /\ alertText = "You can only select a maximum of 8 frames."
    /\ Cardinality(selectedFrameIds) = MAX_SELECTED_FRAMES
    /\ ended = "extract:loop"
    /\ extractedFrames[1].timestamp \notin selectedFrameIds

\* --------------------------------------------------------------- C15
\* C15: "Select All" replaces the selection, whatever it held, with the
\* timestamps of the first min(MAX_SELECTED_FRAMES, n) of the n accepted
\* frames in extraction order: exactly 8 entries when n > 8; no notice is
\* raised.
C15_SelectAllFirstMax ==
    [][ SelectAll =>
          LET n == Len(extractedFrames)
              m == IF n < 8 THEN n ELSE 8
          IN  /\ selectedFrameIds' = {extractedFrames[k].timestamp : k \in 1..m}
              /\ Cardinality(selectedFrameIds') = m
              /\ alertText' = alertText
      ]_vars

\* nine frames accepted, the first eight selected, the run over
C15_Witness ==
    /\ Len(extractedFrames) = 9
    /\ selectedFrameIds = {extractedFrames[k].timestamp : k \in 1..8}
    /\ pc = "idle"
    /\ alertText = ""

\* --------------------------------------------------------------- C16
\* C16: in an enhancement run over the n >= 1 selected frames, taken in the
\* stored order of extractedFrames, every enhancer call of the run is given
\* as reference the frame at (0-based) index floor(n / 2) of that list: the
\* same frame for all calls, fixed when the run starts.  Call k is made for
\* the k-th frame of the list.
C16_ReferenceIsMiddleFrame ==
    EnhancementRun =>
        LET selected == SelectSeq(extractedFrames,
                                  LAMBDA f : f.timestamp \in selectedFrameIds)
            n == Len(selected)
        IN  /\ n >= 1
            /\ framesToEnhance = selected
            /\ Len(enhancerCalls) <= n
            /\ \A k \in 1..Len(enhancerCalls) :
                /\ enhancerCalls[k].reference = selected[(n \div 2) + 1].dataUrl
                /\ enhancerCalls[k].image = selected[k].dataUrl

\* a run over three selected frames: all three calls got the second frame
C16_Witness ==
    /\ ended = "enhance"
    /\ Len(framesToEnhance) = 3
    /\ Len(enhancerCalls) = 3
    /\ \A k \in 1..3 : enhancerCalls[k].reference = framesToEnhance[2].dataUrl
    /\ enhancerCalls[1].image # enhancerCalls[1].reference

\* --------------------------------------------------------------- C17
\* C17: in an enhancement run a call that fails or returns no image appends
\* nothing and does not stop the run: an image is in enhancedImages for a
\* frame exactly when the call for that frame gave an image; the next frame
\* is submitted as soon as a call has resolved; a run that is not cancelled
\* submits every selected frame; the run ends with processingState 'done'
\* and status 'done', with enhancedImages empty when no call gave an image.
C17_EnhancerFailureSkipsFrame ==
    EnhancementRun =>
        /\ pc = "enh_call" =>
            /\ Len(enhancerCalls) = Len(enhancerResults) + 1
            /\ currentVideo.status = "processing"
        /\ pc # "enh_reply" =>
            /\ \A k \in 1..Len(enhancerResults) :
                enhancerResults[k] <=>
                    \E m \in 1..Len(enhancedImages) :
                        enhancedImages[m].originalTimestamp
                            = framesToEnhance[k].timestamp
            /\ Len(enhancedImages) <= Len(enhancerResults)
            /\ (\A k \in 1..Len(enhancerResults) : ~enhancerResults[k])
                    => enhancedImages = <<>>
        /\ ended = "enhance" =>
            /\ processingState = "done"
            /\ currentVideo.status = "done"
            /\ Len(enhancerResults) = Len(enhancerCalls)
            /\ ~isCancelled => Len(enhancerCalls) = Len(framesToEnhance)

\* an uncancelled run of three calls: the first gave no image, the second did,
\* the third did not; one image is left
C17_Witness ==
    /\ ended = "enhance"
    /\ ~isCancelled
    /\ enhancerResults = <<FALSE, TRUE, FALSE>>
    /\ Len(enhancedImages) = 1
    /\ processingState = "done"

\* ------------------------------------------------------------------ C18

ExtractionStarted == pc \in {"ext_meta", "ext_seek", "ext_classify", "ext_reply"}

EnhancementStarted == pc \in {"enh_call", "enh_reply"}

ExtractionReturned == pc = "idle" /\ processingState = "idle"

EnhancementReturned == pc = "idle" /\ processingState = "done"

\* C18 as stated: when every seek and every remote call resolves, every
\* started extraction run leaves 'processing' for 'idle' and every started
\* enhancement run leaves 'processing' for 'done', cancelled or not.  The
\* run's first await, on the preview's metadata, is neither a seek nor a
\* remote call; while it lasts the run stays in 'processing'.
C18_RunsTerminate ==
    /\ ExtractionStarted ~> ExtractionReturned
    /\ EnhancementStarted ~> EnhancementReturned

\* C18: when every seek and every remote call resolves and the wait for the
\* preview's metadata ends as well (loaded or error), every started
\* extraction run leaves 'processing' for 'idle' and every started
\* enhancement run leaves 'processing' for 'done', cancelled or not.
C18_RunsTerminateOnceMetadataSettles ==
    /\ ExtractionStarted ~> (ExtractionReturned \/ [](pc = "ext_meta"))
    /\ EnhancementStarted ~> EnhancementReturned

\* Both kinds of run have returned, the enhancement run after a cancellation
\* that it observed with calls still to make.
C18_Witness ==
    /\ ended = "enhance"
    /\ EnhancementReturned
    /\ isCancelled
    /\ Len(enhancerResults) < Len(framesToEnhance)
    /\ extractedFrames # <<>>

\* ------------------------------------------------------------------ C19

\* The number of images the enhancer has produced in the current run.
ImagesProduced == Cardinality({k \in 1..Len(enhancerResults) : enhancerResults[k]})

\* A final message of an extraction that states n frames found and says
\* whether the run was cancelled.
FramesFoundMessage(cancelled, n) ==
    Msg(IF cancelled THEN "Processing cancelled. frames found."
                     ELSE "Processing complete. frames found.", n, 0)

\* A final message of an enhancement that states n images produced and says
\* whether the run was cancelled.
ImagesFoundMessage(cancelled, n) ==
    Msg(IF cancelled THEN "Processing cancelled. Found images."
                     ELSE "Processing complete. Found images.", n, 0)

\* C19 as stated: after a run that ended by exhausting its frames, by
\* observing a cancellation or by the invalid-segment short-circuit, the
\* progress message states the number of frames found / images produced in
\* that run and whether the run was cancelled.
C19_FinalMessageOnEveryPath ==
    /\ ended \in {"extract:loop", "extract:invalid"} =>
        currentVideo.progressMessage = FramesFoundMessage(isCancelled, matchCount)
    /\ ended = "enhance" =>
        currentVideo.progressMessage = ImagesFoundMessage(isCancelled, ImagesProduced)

\* C19: after a run that left its loop (frames exhausted or cancellation
\* observed) the progress message states the number of frames found / images
\* produced in that run and whether cancellation was requested during it;
\* after the invalid-segment short-circuit the message is "Invalid segment
\* selected." and states neither.
C19_FinalMessageAfterLoop ==
    /\ ended = "extract:loop" =>
        /\ currentVideo.progressMessage = FramesFoundMessage(isCancelled, matchCount)
        /\ matchCount = Len(extractedFrames)
    /\ ended = "enhance" =>
        /\ currentVideo.progressMessage = ImagesFoundMessage(isCancelled, ImagesProduced)
        /\ ImagesProduced = Len(enhancedImages)
    /\ ended = "extract:invalid" =>
        /\ currentVideo.progressMessage = Msg("Invalid segment selected.", 0, 0)
        /\ \A c \in BOOLEAN, n \in 0..MAX_SELECTED_FRAMES :
              currentVideo.progressMessage # FramesFoundMessage(c, n)

\* An extraction cancelled after one frame was found, with frames left to
\* sample, has returned.
C19_Witness ==
    /\ ended = "extract:loop"
    /\ isCancelled
    /\ matchCount = 1
    /\ iterBegun < totalFramesToProcess
    /\ currentVideo.progressMessage = Msg("Processing cancelled. frames found.", 1, 0)

\* ------------------------------------------------------------------ C20

\* C20: while an enhancement run is in progress a step leaves the enhanced
\* images as they are or appends one element at their end; the step that
\* starts a run leaves them empty; and every image present during or after a
\* run is the result of a call of that run which returned an image.
C20_ImagesAppendOnly ==
    /\ [][ /\ EnhancementStarted =>
                \/ enhancedImages' = enhancedImages
                \/ /\ Len(enhancedImages') = Len(enhancedImages) + 1
                   /\ SubSeq(enhancedImages', 1, Len(enhancedImages)) = enhancedImages
           /\ (~EnhancementStarted /\ EnhancementStarted') => enhancedImages' = <<>>
         ]_vars
    /\ [](EnhancementRun =>
            /\ Len(enhancedImages) <= ImagesProduced
            /\ \A m \in 1..Len(enhancedImages) :
                \E k \in 1..Len(enhancerResults) :
                    /\ enhancerResults[k]
                    /\ enhancedImages[m].id = ImageId(framesToEnhance[k].timestamp, k - 1)
                    /\ enhancedImages[m].url = EnhancedUrl(enhancerCalls[k].image))

\* A later enhancement run is at its first call: the result count still
\* shown is that of an earlier enhancement run (an extraction leaves the
\* number of its frames there), while the images are empty.
C20_Witness ==
    /\ pc = "enh_call"
    /\ j = 0
    /\ enhancedImages = <<>>
    /\ currentVideo.resultCount >= 1
    /\ currentVideo.resultCount < Len(extractedFrames)

\* ------------------------------------------------------------------ C21

\* C21: when the load of the video's metadata fails at the start of an
\* extraction run, the run ends with that step: the status is 'error', the
\* processing state is back to 'idle', no seek was issued, no classifier
\* call was made and the extracted frames are empty.
C21_MetadataFailureEndsRun ==
    /\ [][MetadataError =>
            /\ pc' = "idle"
            /\ ended' = "extract:metadata"
            /\ extractedFrames' = <<>>]_vars
    /\ [](ended = "extract:metadata" =>
            /\ currentVideo.status = "error"
            /\ processingState = "idle"
            /\ pc = "idle"
            /\ running = 0
            /\ seekLog = <<>>
            /\ iterBegun = 0
            /\ matchCount = 0
            /\ everyMatched
            /\ extractedFrames = <<>>
            /\ selectedFrameIds = {})

\* A run has ended on the metadata failure and reported it.
C21_Witness ==
    /\ ended = "extract:metadata"
    /\ currentVideo.status = "error"
    /\ currentVideo.error = "Failed to load video metadata."
    /\ processingState = "idle"

\* ------------------------------------------------------------------ C22

\* C22: when the seek to a sample fails, that sample yields no frame and no
\* classifier call; if samples remain and no cancellation is pending the
\* next sample's seek is issued, otherwise the run ends as any run that left
\* its loop does: status 'queued', processing state 'idle', the final
\* message with the frames found; the failure itself records no error.
C22_SeekFailureSkipsSample ==
    /\ [][SeekError =>
            /\ extractedFrames' = extractedFrames
            /\ foundFramesCount' = foundFramesCount
            /\ matchCount' = matchCount
            /\ currentVideo'.error = currentVideo.error
            /\ currentVideo'.resultCount = currentVideo.resultCount
            /\ pc' # "ext_classify"
            /\ IF i + 1 < totalFramesToProcess /\ ~isCancelled
               THEN /\ pc' = "ext_seek"
                    /\ i' = i + 1
                    /\ seekLog' = Append(seekLog, startTime + (i + 1) * frameInterval)
                    /\ currentVideo'.status = "processing"
                    /\ processingState' = "processing"
               ELSE /\ pc' = "idle"
                    /\ ended' = "extract:loop"]_vars
    /\ [](ended = "extract:loop" =>
            /\ currentVideo.status = "queued"
            /\ processingState = "idle"
            /\ currentVideo.progressMessage = FramesFoundMessage(isCancelled, matchCount)
            /\ ~isCancelled => iterBegun = totalFramesToProcess)

\* A run of three samples in which no seek succeeded (no preview was ever
\* drawn) has ended, uncancelled, with no frame.
C22_Witness ==
    /\ ended = "extract:loop"
    /\ ~isCancelled
    /\ iterBegun = 3
    /\ Len(seekLog) = 3
    /\ currentVideo.thumbnailDataUrl = NoImage
    /\ currentVideo.status = "queued"
    /\ extractedFrames = <<>>

\* ------------------------------------------------------------------ C23

\* The ways handleExtractFrames returns.
ExtractionExits == {"extract:loop", "extract:invalid", "extract:canvas", "extract:metadata"}

\* C23 as stated: on every exit path of an extraction run the media source
\* handle the run used (the object URL of the video) has been released when
\* the run has reported its end.
C23_ReleasedOnEveryExit ==
    ended \in ExtractionExits => ~videoSrc

\* C23: an extraction run neither creates nor releases a media source
\* handle: it uses the object URL made when the video was chosen, which is
\* held throughout the run and is still held after every exit path; the
\* handle changes only while no run is in progress, by the operations that
\* remove or replace the video.
C23_HandleOutlivesRun ==
    /\ [][videoSrc' # videoSrc =>
            /\ ~isProcessing
            /\ pc = "idle"
            /\ pc' = "idle"
            /\ ended' = "none"]_vars
    /\ [](ExtractionStarted \/ ended \in ExtractionExits =>
            /\ videoSrc
            /\ currentVideo # NoVideo)

\* A cancelled extraction has returned and the object URL is still held.
C23_Witness ==
    /\ ended = "extract:loop"
    /\ isCancelled
    /\ iterBegun < totalFramesToProcess
    /\ processingState = "idle"
    /\ videoSrc

\* ------------------------------------------------------------------ C24

\* C24: at most one seek, classifier call or enhancer call is outstanding.
\* A seek is issued only by a step taken when no classifier call is pending,
\* and the seeks issued exceed the samples handled by exactly one while a
\* sample is in hand; an enhancer call is issued only when every earlier
\* call of the run has resolved; and at most one handler is in flight.
C24_OneOutstandingCall ==
    /\ [][(seekLog' # seekLog /\ seekLog' # <<>>) =>
            /\ pc # "ext_classify"
            /\ pc' = "ext_seek"
            /\ seekLog' = Append(IF i' = 0 THEN <<>> ELSE seekLog, seekLog'[i' + 1])]_vars
    /\ [][(enhancerCalls' # enhancerCalls /\ enhancerCalls' # <<>>) =>
            /\ pc # "enh_call"
            /\ pc' = "enh_call"
            /\ Len(enhancerCalls') = Len(enhancerResults') + 1]_vars
    /\ [](/\ running <= 1
          /\ (InExtractLoop => Len(seekLog) = i + 1)
          /\ (pc = "enh_call" => Len(enhancerCalls) = Len(enhancerResults) + 1)
          /\ (pc = "enh_reply" => Len(enhancerCalls) = Len(enhancerResults))
          /\ (pc \in {"enh_call", "enh_reply"} => Len(enhancerCalls) = j + 1))

\* The classifier call for the second sample is pending: two seeks have been
\* issued, one sample has been handled.
C24_Witness ==
    /\ pc = "ext_classify"
    /\ i = 1
    /\ Len(seekLog) = 2
    /\ running = 1

\* ------------------------------------------------------------------ C25

\* C25: in an extraction run the progress counter equals the number of
\* samples handled so far, and when a run that was not cancelled has ended
\* it equals the total.  (The code writes the counter at the top of
\* iteration i with the value i and never after the last sample.)
C25_ProgressReachesTotal ==
    /\ InExtractLoop => currentVideo.progressCurrent = i
    /\ (ended = "extract:loop" /\ ~isCancelled) =>
            /\ currentVideo.progressTotal = totalFramesToProcess
            /\ currentVideo.progressCurrent = currentVideo.progressTotal

\* ------------------------------------------------------------------ C26

\* C26: in an enhancement run the progress counter equals the number of
\* selected frames handled so far, whatever the enhancer returned for them
\* (an image, none, or a failure); the total is the number of selected
\* frames, and a run that was not cancelled ends with current = total.
C26_EnhancementProgress ==
    EnhancementRun =>
        /\ currentVideo.progressTotal = Len(framesToEnhance)
        /\ currentVideo.progressTotal = Cardinality(selectedFrameIds)
        /\ pc = "enh_call" =>
            /\ currentVideo.progressCurrent = j
            /\ currentVideo.progressCurrent = Len(enhancerResults)
        /\ pc = "enh_reply" => currentVideo.progressCurrent = Len(enhancerResults) - 1
        /\ ended = "enhance" =>
            /\ currentVideo.progressCurrent = Len(enhancerResults)
            /\ ~isCancelled => currentVideo.progressCurrent = currentVideo.progressTotal

\* An uncancelled run over two frames has ended; the enhancer produced an
\* image for the first and none for the second, and the counter is at 2 of 2.
C26_Witness ==
    /\ ended = "enhance"
    /\ ~isCancelled
    /\ enhancerResults = <<TRUE, FALSE>>
    /\ currentVideo.progressCurrent = 2
    /\ currentVideo.progressTotal = 2

\* ------------------------------------------------------------------ C27

\* C27 as stated: the extracted frames are always in strictly ascending
\* timestamp order; a step of an extraction run in its loop leaves them as
\* they are or appends one frame at their end; and toggling, select-all,
\* deselect-all, cropping, cancelling and enhancement neither reorder nor
\* remove nor deduplicate them.
C27_OnlyAppendedDuringRun ==
    /\ [](\A k \in 2..Len(extractedFrames) :
            extractedFrames[k - 1].timestamp < extractedFrames[k].timestamp)
    /\ [][InExtractLoop =>
            \/ extractedFrames' = extractedFrames
            \/ /\ Len(extractedFrames') = Len(extractedFrames) + 1
               /\ SubSeq(extractedFrames', 1, Len(extractedFrames)) = extractedFrames]_vars
    /\ [][Timestamps(extractedFrames') # Timestamps(extractedFrames) =>
            ~(\/ HandleFrameSelection \/ SelectAll \/ DeselectAll \/ HandleSaveCrop
              \/ HandleCancel \/ HandleEnhanceFrames \/ EnhancerResolves
              \/ EnhanceResume)]_vars

\* C27: the extracted frames are always in strictly ascending timestamp
\* order; a step taken while an extraction run is in its loop leaves their
\* timestamps as they are or appends one frame at their end, and changes the
\* image of a frame already held only if it is the saving of a crop; and
\* toggling, select-all, deselect-all, cropping, cancelling and every step
\* of an enhancement run leave their number and their timestamps as they
\* are, position by position.
C27_FramesAscendingAppendOnly ==
    /\ [](\A k \in 2..Len(extractedFrames) :
            extractedFrames[k - 1].timestamp < extractedFrames[k].timestamp)
    /\ [][InExtractLoop =>
            /\ Len(extractedFrames') \in {Len(extractedFrames), Len(extractedFrames) + 1}
            /\ SubSeq(Timestamps(extractedFrames'), 1, Len(extractedFrames))
                    = Timestamps(extractedFrames)
            /\ SubSeq(extractedFrames', 1, Len(extractedFrames)) # extractedFrames
                    => /\ HandleSaveCrop
                       /\ Len(extractedFrames') = Len(extractedFrames)]_vars
    /\ [][Timestamps(extractedFrames') # Timestamps(extractedFrames) =>
            ~(\/ HandleFrameSelection \/ SelectAll \/ DeselectAll \/ HandleSaveCrop
              \/ HandleCancel \/ HandleEnhanceFrames \/ EnhancerResolves
              \/ EnhanceResume)]_vars

\* An extraction run is in its loop holding two frames, the first of them
\* cropped.
C27_Witness ==
    /\ InExtractLoop
    /\ Len(extractedFrames) = 2
    /\ extractedFrames[1].dataUrl.rev = 1

\* ------------------------------------------------------------------ C28

\* The timestamps of the frames, among the first n handed to the enhancer,
\* for which it returned an image, in the order of the calls.
ProducedTimestamps[n \in 0..MAX_SELECTED_FRAMES] ==
    IF n = 0 THEN <<>>
    ELSE IF enhancerResults[n]
         THEN Append(ProducedTimestamps[n - 1], framesToEnhance[n].timestamp)
         ELSE ProducedTimestamps[n - 1]

\* C28: the enhanced images of a run are in processing order: their
\* originalTimestamps are, in order, the timestamps of those selected frames
\* (in stored order) for which the enhancer returned an image; when every
\* call returned an image and the run was not cancelled there is one
\* enhanced image per selected frame.
C28_ImagesInProcessingOrder ==
    (EnhancementRun /\ pc # "enh_reply") =>
        /\ framesToEnhance = SelectedFrames(extractedFrames, selectedFrameIds)
        /\ [m \in 1..Len(enhancedImages) |-> enhancedImages[m].originalTimestamp]
                = ProducedTimestamps[Len(enhancerResults)]
        /\ \A m \in 2..Len(enhancedImages) :
                enhancedImages[m - 1].originalTimestamp < enhancedImages[m].originalTimestamp
        /\ \A m \in 1..Len(enhancedImages) :
                enhancedImages[m].url.t = enhancedImages[m].originalTimestamp
        /\ (/\ ended = "enhance" /\ ~isCancelled
            /\ \A k \in 1..Len(enhancerResults) : enhancerResults[k]) =>
                [m \in 1..Len(enhancedImages) |-> enhancedImages[m].originalTimestamp]
                    = Timestamps(framesToEnhance)

\* Three frames at 0, 0.25 and 0.5 s were selected, every call returned an
\* image, and the three enhanced images carry these timestamps in order.
C28_Witness ==
    /\ ended = "enhance"
    /\ ~isCancelled
    /\ enhancerResults = <<TRUE, TRUE, TRUE>>
    /\ [m \in 1..Len(enhancedImages) |-> enhancedImages[m].originalTimestamp] = <<0, 1, 2>>

\* ------------------------------------------------------------------ C29

\* C29: within one enhancement run no two enhanced images have the same id,
\* and every id is the text of the source frame's timestamp, a hyphen and
\* the text of the frame's position in the loop.
C29_ImageIdsUnique ==
    EnhancementRun =>
        /\ \A m, n \in 1..Len(enhancedImages) :
                m # n => enhancedImages[m].id # enhancedImages[n].id
        /\ \A m \in 1..Len(enhancedImages) :
                \E k \in 1..Len(framesToEnhance) :
                    /\ framesToEnhance[k].timestamp = enhancedImages[m].originalTimestamp
                    /\ enhancedImages[m].id
                        = NumberText(framesToEnhance[k].timestamp) \o <<"-">> \o IntText(k - 1)

\* Three images were produced in one run, from frames within the same
\* second; the second one's id is "0.25-1".
C29_Witness ==
    /\ EnhancementRun
    /\ Len(enhancedImages) = 3
    /\ enhancedImages[1].id = <<"0", "-", "0">>
    /\ enhancedImages[2].id = <<"0", ".", "2", "5", "-", "1">>
    /\ enhancedImages[3].id = <<"0", ".", "5", "-", "2">>

\* ------------------------------------------------------------------ C30

\* C30: handleEnhanceFrames invoked while no extracted frame is selected
\* changes nothing: the processing state, the progress fields and the rest
\* of the current video, the cancellation flag, the extracted frames, the
\* selection and the enhanced images stay as they are, no handler is left
\* in flight and no enhancer call is issued.
C30_EmptySelectionIsNoOp ==
    [][HandleEnhanceFramesNothingSelected =>
        /\ UNCHANGED <<processingState, currentVideo, isCancelled, extractedFrames,
                       selectedFrameIds, enhancedImages, framesBeingEnhanced>>
        /\ UNCHANGED <<pc, running, ended, enhancerCalls, enhancerResults>>]_vars

\* The handler has been invoked with frames extracted and none selected;
\* no run was started and no enhancer call was made.
C30_Witness ==
    /\ guardReturns
    /\ Len(extractedFrames) = 2
    /\ selectedFrameIds = {}
    /\ processingState = "idle"
    /\ ended = "extract:loop"
    /\ enhancerCalls = <<>>
    /\ enhancedImages = <<>>

\* ------------------------------------------------------------------ C31

\* C31: saving a crop for timestamp t gives the frame with timestamp t a new
\* image and changes nothing else: the number, order and timestamps of the
\* extracted frames, the images of the other frames, the selection and the
\* enhanced images are as before.
C31_CropReplacesOneImage ==
    [][(extractedFrames' # extractedFrames /\ HandleSaveCrop) =>
        /\ \E k \in 1..Len(extractedFrames) :
            /\ extractedFrames'[k].dataUrl # extractedFrames[k].dataUrl
            /\ extractedFrames'[k].dataUrl.t = extractedFrames[k].dataUrl.t
            /\ extractedFrames'[k].timestamp = extractedFrames[k].timestamp
            /\ Len(extractedFrames') = Len(extractedFrames)
            /\ \A n \in 1..Len(extractedFrames) :
                n # k => extractedFrames'[n] = extractedFrames[n]
        /\ UNCHANGED <<selectedFrameIds, enhancedImages>>]_vars

\* Of three frames held, the second was cropped; the first is selected.
C31_Witness ==
    /\ Len(extractedFrames) = 3
    /\ extractedFrames[1].dataUrl.rev = 0
    /\ extractedFrames[2].dataUrl.rev = 1
    /\ extractedFrames[3].dataUrl.rev = 0
    /\ selectedFrameIds = {extractedFrames[1].timestamp}

\* ------------------------------------------------------------------ C32

\* C32: the step that starts an extraction or an enhancement run leaves the
\* cancellation flag cleared, whatever an earlier run left in it; and a run
\* that stopped before its last sample or frame, or whose final message
\* says it was cancelled, is one during which a cancellation was requested.
C32_RunStartsUncancelled ==
    /\ [][isCancelled' => ~(HandleExtractFrames \/ HandleEnhanceFrames)]_vars
    /\ [](/\ (ExtractionRun \/ EnhancementRun) => (isCancelled <=> (begunAtCancel # -1))
          /\ (/\ ended = "extract:loop"
              /\ \/ iterBegun < totalFramesToProcess
                 \/ currentVideo.progressMessage.text = "Processing cancelled. frames found.")
                => (begunAtCancel # -1)
          /\ (/\ ended = "enhance"
              /\ \/ Len(enhancerCalls) < Len(framesToEnhance)
                 \/ currentVideo.progressMessage.text = "Processing cancelled. Found images.")
                => (begunAtCancel # -1))

\* An enhancement run has handled every selected frame and reports itself
\* complete, after an extraction that a cancellation had stopped early.
C32_Witness ==
    /\ ended = "enhance"
    /\ Len(seekLog) < totalFramesToProcess
    /\ ~isCancelled
    /\ Len(enhancerResults) = Len(framesToEnhance)
    /\ currentVideo.progressMessage.text = "Processing complete. Found images."

\* ------------------------------------------------------------------ C33

\* C33: when the final message of an extraction says 'Processing complete',
\* the loop issued the seek of every sample of the segment, in order, and
\* when that of an enhancement says so, the loop called the enhancer for
\* every selected frame and saw each call settle; a run whose loop left
\* before its last sample or frame reports 'Processing cancelled'.
C33_CompleteMeansAllHandled ==
    /\ (/\ ended = "extract:loop"
        /\ currentVideo.progressMessage.text = "Processing complete. frames found.")
          => /\ iterBegun = totalFramesToProcess
             /\ seekLog = [k \in 1..totalFramesToProcess |->
                              SampleTime(startTime, k - 1, frameInterval)]
    /\ (/\ ended = "enhance"
        /\ currentVideo.progressMessage.text = "Processing complete. Found images.")
          => /\ Len(enhancerCalls) = Len(framesToEnhance)
             /\ Len(enhancerResults) = Len(framesToEnhance)
             /\ \A k \in 1..Len(framesToEnhance) :
                    enhancerCalls[k].image = framesToEnhance[k].dataUrl
    /\ (ended = "extract:loop" /\ iterBegun < totalFramesToProcess)
          => currentVideo.progressMessage.text = "Processing cancelled. frames found."
    /\ (ended = "enhance" /\ Len(enhancerCalls) < Len(framesToEnhance))
          => currentVideo.progressMessage.text = "Processing cancelled. Found images."

\* An enhancement of two frames was cancelled during its first call and
\* reports itself cancelled, after an extraction that took all its samples.
C33_Witness ==
    /\ ended = "enhance"
    /\ Len(framesToEnhance) = 2
    /\ Len(enhancerCalls) = 1
    /\ Len(seekLog) = totalFramesToProcess
    /\ currentVideo.progressMessage.text = "Processing cancelled. Found images."

\* ------------------------------------------------------------------ C34

\* C34: throughout an extraction run and after it, whatever the user toggled,
\* selected, deselected or cropped in the gallery meanwhile, the extracted
\* frames are the frames the loop accepted, one entry each, in the order it
\* accepted them, with the timestamps it gave them; the image of an entry is
\* the captured one unless that entry was cropped, and then it is a crop of
\* the captured one.
C34_AcceptedFramesSurviveUserActions ==
    ExtractionRun =>
        /\ Len(extractedFrames) = Len(acceptedLog)
        /\ \A k \in 1..Len(acceptedLog) :
            /\ extractedFrames[k].timestamp = acceptedLog[k].timestamp
            /\ [extractedFrames[k].dataUrl EXCEPT !.rev = 0] = acceptedLog[k].dataUrl
        /\ \A a, b \in 1..Len(extractedFrames) :
            a < b => extractedFrames[a].timestamp < extractedFrames[b].timestamp

\* The run has accepted two samples and is seeking the next; meanwhile the
\* first frame was cropped and the second one selected; both are still in
\* their places.
C34_Witness ==
    /\ pc = "ext_seek"
    /\ Len(acceptedLog) = 2
    /\ extractedFrames[1].dataUrl.rev = 1
    /\ extractedFrames[2].dataUrl.rev = 0
    /\ selectedFrameIds = {extractedFrames[2].timestamp}

\* ------------------------------------------------------------------ C35

\* C35: in every reachable state each selected timestamp is the timestamp of
\* an extracted frame; a step that empties the extracted frames is the start
\* of an extraction run, the choice of a new video or the removal of the
\* video, and it empties the selection too.
C35_SelectionWithinFrames ==
    /\ [](\A t \in selectedFrameIds :
            \E k \in 1..Len(extractedFrames) : extractedFrames[k].timestamp = t)
    /\ [][(extractedFrames # <<>> /\ extractedFrames' = <<>>) =>
            /\ selectedFrameIds' = {}
            /\ HandleExtractFrames \/ HandleFileSelect \/ HandleRemoveVideo]_vars

\* Of the three frames an extraction left, the first and the third are
\* selected and the second is not.
C35_Witness ==
    /\ Len(extractedFrames) = 3
    /\ selectedFrameIds = {extractedFrames[1].timestamp, extractedFrames[3].timestamp}
    /\ ended = "extract:loop"
    /\ pc = "idle"

\* ------------------------------------------------------------------ C36

\* C36: in an enhancement run the k-th enhancer call is for the k-th of the
\* frames that were selected when the run started, so no frame is submitted
\* twice; there are never more calls than such frames, nor more than
\* MAX_SELECTED_FRAMES = 8; and the progress total of the run is the number
\* of frames that were selected when it started.
C36_OneCallPerSelectedFrame ==
    EnhancementRun =>
        /\ Len(enhancerCalls) <= Len(framesToEnhance)
        /\ Len(enhancerCalls) <= MAX_SELECTED_FRAMES
        /\ \A k \in 1..Len(enhancerCalls) :
            enhancerCalls[k].image = framesToEnhance[k].dataUrl
        /\ \A a, b \in 1..Len(framesToEnhance) :
            a < b => framesToEnhance[a].timestamp < framesToEnhance[b].timestamp
        /\ Len(framesToEnhance) = Cardinality(selectedFrameIds)
        /\ framesToEnhance = SelectedFrames(extractedFrames, selectedFrameIds)
        /\ currentVideo.progressTotal = Len(framesToEnhance)

\* Nine frames were extracted, eight of them selected, and the run made its
\* eighth call and returned.
C36_Witness ==
    /\ ended = "enhance"
    /\ Len(extractedFrames) = 9
    /\ Len(enhancerCalls) = 8
    /\ currentVideo.progressTotal = 8

\* ------------------------------------------------------------------ C37

\* C37: no step of an enhancement run, from the step that starts it to the
\* step in which it returns, completed or cancelled, and no user action taken
\* while it is in progress, changes the extracted frames or the selection:
\* when the run has returned both are what the run was started with.
C37_EnhancementKeepsFramesAndSelection ==
    /\ [][(extractedFrames' # extractedFrames \/ selectedFrameIds' # selectedFrameIds) =>
            /\ pc \notin {"enh_call", "enh_reply"}
            /\ pc' \notin {"enh_call", "enh_reply"}
            /\ ended' # "enhance"]_vars
    /\ [](EnhancementRun =>
            SelectedFrames(extractedFrames, selectedFrameIds) = framesToEnhance)

\* A run on two selected frames of three, the second of which had been
\* cropped, was cancelled during its second call and has returned.
C37_Witness ==
    /\ ended = "enhance"
    /\ isCancelled
    /\ Len(extractedFrames) = 3
    /\ extractedFrames[2].dataUrl.rev = 1
    /\ selectedFrameIds = {extractedFrames[2].timestamp, extractedFrames[3].timestamp}
    /\ Len(enhancerCalls) = 2

\* ------------------------------------------------------------------ C38

\* C38: during an enhancement run and after it has returned, the result
\* count of the video equals the number of enhanced images the run has
\* produced so far, also while that number is zero.  (The code writes the
\* count only when a call has produced an image, and the start of the run
\* does not reset it.)
C38_ResultCountIsImagesProduced ==
    EnhancementRun => currentVideo.resultCount = Len(enhancedImages)

\* ------------------------------------------------------------------ C39

\* The configured segment has a positive duration shorter than one sample
\* interval: segmentDuration * framesPerSecond < 1 (durations in ticks).
ShorterThanOneInterval ==
    /\ SegmentTicks > 0
    /\ SegmentTicks * framesPerSecond < TicksPerSec

\* C39 as stated: on a segment of positive duration shorter than one sample
\* interval, an extraction run whose set-up succeeded has a sample count of
\* 0, issues no seek and sees no classifier reply, and ends through the end
\* of the loop, not through the invalid-segment exit, with processingState
\* idle, no extracted frame and the message 'Processing complete' for 0
\* frames.
C39_ShortSegmentCompletesEmpty ==
    /\ ShorterThanOneInterval => ~InExtractLoop
    /\ (ShorterThanOneInterval /\ ended \in {"extract:loop", "extract:invalid"}) =>
        /\ ended = "extract:loop"
        /\ totalFramesToProcess = 0
        /\ currentVideo.progressTotal = 0
        /\ seekLog = <<>> /\ iterBegun = 0
        /\ matchCount = 0 /\ everyMatched
        /\ processingState = "idle"
        /\ extractedFrames = <<>>
        /\ currentVideo.status = "queued"
        /\ currentVideo.progressMessage = FramesFoundMessage(FALSE, 0)

\* C39: the same, except that the message is the summary for 0 frames that
\* the flag selects: 'Processing complete', or 'Processing cancelled' when
\* cancellation was requested in that run, which can only be while the run
\* was waiting for the video's metadata.
C39_ShortSegmentEndsEmpty ==
    /\ ShorterThanOneInterval => ~InExtractLoop
    /\ (ShorterThanOneInterval /\ ended \in {"extract:loop", "extract:invalid"}) =>
        /\ ended = "extract:loop"
        /\ totalFramesToProcess = 0
        /\ currentVideo.progressTotal = 0
        /\ seekLog = <<>> /\ iterBegun = 0
        /\ matchCount = 0 /\ everyMatched
        /\ processingState = "idle"
        /\ extractedFrames = <<>>
        /\ currentVideo.status = "queued"
        /\ currentVideo.progressMessage = FramesFoundMessage(begunAtCancel # -1, 0)
        /\ isCancelled <=> (begunAtCancel = 0)

\* A run on a segment of three quarters of a second at one frame per second
\* has ended with no sample taken and reports itself complete.
C39_Witness ==
    /\ ShorterThanOneInterval
    /\ SegmentTicks = 3
    /\ framesPerSecond = 1
    /\ ended = "extract:loop"
    /\ ~isCancelled
    /\ currentVideo.progressMessage = FramesFoundMessage(FALSE, 0)

====
